---- MODULE Spec2Model ----
(***************************************************************************)
(* A model of mercury's patch parser (src/src/mercury/diffparser.py) and   *)
(* of the Change / Hunk records it builds (src/src/mercury/change.py).     *)
(*                                                                         *)
(* Text is modelled character by character: a Python string is a sequence  *)
(* of one-character strings, so that the regular expressions and the       *)
(* slicing of the parser are computed, not assumed.  Python's None is the  *)
(* one-element sequence <<"None">>, which no string equals because every   *)
(* element of a string is a single character.                              *)
(***************************************************************************)
EXTENDS Integers, Sequences, FiniteSets, TLC

\* ------------------------------------------------------------------------
\* Characters and strings
\* ------------------------------------------------------------------------

None == <<"None">>

\* Python's \s for 8-bit strings (the vertical tab has no TLA+ spelling and
\* occurs in no modelled input)
WS == {" ", "\t", "\n", "\r", "\f"}

Digit == {"0", "1", "2", "3", "4", "5", "6", "7", "8", "9"}

OctDigit == {"0", "1", "2", "3", "4", "5", "6", "7"}

Lower == {"a", "b", "c", "d", "e", "f", "g", "h", "i", "j", "k", "l", "m",
          "n", "o", "p", "q", "r", "s", "t", "u", "v", "w", "x", "y", "z"}

Upper == {"A", "B", "C", "D", "E", "F", "G", "H", "I", "J", "K", "L", "M",
          "N", "O", "P", "Q", "R", "S", "T", "U", "V", "W", "X", "Y", "Z"}

\* Python's \w
WordChar == Lower \cup Upper \cup Digit \cup {"_"}

DigitVal(c) ==
  CASE c = "0" -> 0 [] c = "1" -> 1 [] c = "2" -> 2 [] c = "3" -> 3
    [] c = "4" -> 4 [] c = "5" -> 5 [] c = "6" -> 6 [] c = "7" -> 7
    [] c = "8" -> 8 [] c = "9" -> 9

\* int(s, base) on a non-empty string of digits
RECURSIVE ParseInt(_, _)
ParseInt(s, base) ==
  IF s = <<>> THEN 0
  ELSE ParseInt(SubSeq(s, 1, Len(s) - 1), base) * base + DigitVal(s[Len(s)])

\* F(v), the argument v being computed once and F applied to its value
Once(F(_), v) == CHOOSE r \in {F(x) : x \in {v}} : TRUE

\* s.startswith(p)
StartsWith(s, p) == Len(s) >= Len(p) /\ SubSeq(s, 1, Len(p)) = p

\* s[n:]
Drop(s, n) == SubSeq(s, n + 1, Len(s))

\* s[:n]
Take(s, n) == SubSeq(s, 1, n)

\* The last index j >= i-1 such that s[i..j] lies in the class C: the end of a
\* greedy C* starting at (1-based) position i.
Span(s, i, C) ==
  CHOOSE j \in (i - 1)..Len(s) :
    /\ \A k \in i..j : s[k] \in C
    /\ (j = Len(s) \/ s[j + 1] \notin C)

\* s.find(c): the 1-based index of the first c in s at or after position i,
\* 0 when there is none (Python's -1).
FindFrom(s, c, i) ==
  IF \E k \in i..Len(s) : s[k] = c
  THEN CHOOSE k \in i..Len(s) : s[k] = c /\ \A j \in i..(k - 1) : s[j] # c
  ELSE 0

\* s.lstrip(chars), s.rstrip(chars), s.strip(chars)
LStrip(s, C) == Drop(s, Span(s, 1, C))

RStrip(s, C) ==
  Take(s, CHOOSE j \in 0..Len(s) :
            /\ \A k \in (j + 1)..Len(s) : s[k] \in C
            /\ (j = 0 \/ s[j] \notin C))

Strip(s, C) == RStrip(LStrip(s, C), C)

\* The end of a match of  <lit>\s+  at the start of s, 0 when there is none.
LitWsEnd(s, lit) ==
  LET Ws(e) == IF e > Len(lit) THEN e ELSE 0
  IN  IF StartsWith(s, lit) THEN Once(Ws, Span(s, Len(lit) + 1, WS)) ELSE 0

\* The end of a greedy run, starting at position i, of characters not in D.
SpanNot(s, i, D) ==
  CHOOSE j \in (i - 1)..Len(s) :
    /\ \A k \in i..j : s[k] \notin D
    /\ (j = Len(s) \/ s[j + 1] \in D)

\* s.split('/', 1): <<s>> when s holds no '/', else <<before, after>>
SplitSlash(s) ==
  LET At(k) == IF k = 0 THEN <<s>> ELSE <<Take(s, k - 1), Drop(s, k)>>
  IN  Once(At, FindFrom(s, "/", 1))

\* ------------------------------------------------------------------------
\* Regular expressions of diffparser.py
\* ------------------------------------------------------------------------

\* _DIFF_RE.match(line):  diff\s+
DIFF_RE_match(line) == LitWsEnd(line, <<"d", "i", "f", "f">>) > 0

\* _GIT_RE.match(line):  diff\s+--git\s+   (m.end(0), 0 for no match)
GIT_RE_end(line) ==
  LET Git(e1, e2) == IF e2 = 0 THEN 0 ELSE e1 + e2
      Diff(e1) ==
        IF e1 = 0 THEN 0
        ELSE Once(LAMBDA e2 : Git(e1, e2),
                  LitWsEnd(Drop(line, e1), <<"-", "-", "g", "i", "t">>))
  IN  Once(Diff, LitWsEnd(line, <<"d", "i", "f", "f">>))

\* _UNIFIED_1_RE / _CONTEXT_2_RE:  ---\s+
UNIFIED_1_RE_match(line) == LitWsEnd(line, <<"-", "-", "-">>) > 0

\* _UNIFIED_2_RE:  \+\+\+\s+
UNIFIED_2_RE_match(line) == LitWsEnd(line, <<"+", "+", "+">>) > 0

\* _CONTEXT_1_RE:  \*\*\*\s+
CONTEXT_1_RE_match(line) == LitWsEnd(line, <<"*", "*", "*">>) > 0

CONTEXT_2_RE_match(line) == LitWsEnd(line, <<"-", "-", "-">>) > 0

\* _BINARY_RE:  GIT\s+binary\s+patch
BINARY_RE_match(line) ==
  LET Patch(e1, e2) ==
        e2 > 0 /\ StartsWith(Drop(line, e1 + e2), <<"p", "a", "t", "c", "h">>)
      Binary(e1) ==
        /\ e1 > 0
        /\ Once(LAMBDA e2 : Patch(e1, e2),
                LitWsEnd(Drop(line, e1), <<"b", "i", "n", "a", "r", "y">>))
  IN  Once(Binary, LitWsEnd(line, <<"G", "I", "T">>))

\* (\d+)(?:,(\d+))? at position i: the two groups (None for an absent one)
\* and the end of the match; ok is FALSE when no digit stands at i.
NumPair(s, i) ==
  LET Second(e1, e2) ==
        IF e1 + 1 <= Len(s) /\ s[e1 + 1] = "," /\ e2 >= e1 + 2
        THEN [ok |-> TRUE, a |-> SubSeq(s, i, e1), b |-> SubSeq(s, e1 + 2, e2),
              end |-> e2]
        ELSE [ok |-> TRUE, a |-> SubSeq(s, i, e1), b |-> None, end |-> e1]
      First(e1) ==
        IF e1 >= i
        THEN Once(LAMBDA e2 : Second(e1, e2),
                  IF e1 + 2 <= Len(s) + 1 THEN Span(s, e1 + 2, Digit) ELSE e1)
        ELSE [ok |-> FALSE, a |-> <<>>, b |-> None, end |-> e1]
  IN  Once(First, Span(s, i, Digit))

\* _UNIFIED_HUNK_RE.match(line):
\*   @@\s+-(\d+)(?:,(\d+))?\s+\+(\d+)(?:,(\d+))?\s+@@
UNIFIED_HUNK_RE_match(line) ==
  LET Fail == [ok |-> FALSE, sa |-> None, la |-> None, sb |-> None, lb |-> None]
      Close(pa, pb, w3) ==
        IF w3 > pb.end /\ StartsWith(Drop(line, w3), <<"@", "@">>)
        THEN [ok |-> TRUE, sa |-> pa.a, la |-> pa.b, sb |-> pb.a, lb |-> pb.b]
        ELSE Fail
      NewSide(pa, pb) ==
        IF pb.ok
        THEN Once(LAMBDA w3 : Close(pa, pb, w3), Span(line, pb.end + 1, WS))
        ELSE Fail
      Plus(pa, w2) ==
        IF w2 > pa.end /\ w2 + 1 <= Len(line) /\ line[w2 + 1] = "+"
        THEN Once(LAMBDA pb : NewSide(pa, pb), NumPair(line, w2 + 2))
        ELSE Fail
      OldSide(pa) ==
        IF pa.ok
        THEN Once(LAMBDA w2 : Plus(pa, w2), Span(line, pa.end + 1, WS))
        ELSE Fail
      Minus(w1) ==
        IF w1 > 0 /\ w1 + 1 <= Len(line) /\ line[w1 + 1] = "-"
        THEN Once(OldSide, NumPair(line, w1 + 2))
        ELSE Fail
  IN  Once(Minus, LitWsEnd(line, <<"@", "@">>))

\* _CONTEXT_HUNK_RE.match(line):  (?:---|\*\*\*)\s+(\d+)(?:,(\d+))?\s+(?:---|\*\*\*)
CONTEXT_HUNK_RE_match(line) ==
  LET Fail == [ok |-> FALSE, s |-> None, l |-> None]
      Close(p, w2) ==
        IF /\ w2 > p.end
           /\ \/ StartsWith(Drop(line, w2), <<"-", "-", "-">>)
              \/ StartsWith(Drop(line, w2), <<"*", "*", "*">>)
        THEN [ok |-> TRUE, s |-> p.a, l |-> p.b]
        ELSE Fail
      Range(p) ==
        IF p.ok THEN Once(LAMBDA w2 : Close(p, w2), Span(line, p.end + 1, WS))
        ELSE Fail
      Open(w1) == IF w1 > 0 THEN Once(Range, NumPair(line, w1 + 1)) ELSE Fail
  IN  Once(Open, IF StartsWith(line, <<"-", "-", "-">>)
                 THEN LitWsEnd(line, <<"-", "-", "-">>)
                 ELSE LitWsEnd(line, <<"*", "*", "*">>))

\* _METHOD_LINE_RE.match(line):  (\w+)\s+(\d+)
\* \w+ is greedy and \s cannot follow inside it, so the split is unique.
METHOD_LINE_RE_match(line) ==
  LET Fail == [ok |-> FALSE, method |-> None, len |-> None]
      Number(e1, e2, e3) ==
        IF e3 > e2
        THEN [ok |-> TRUE, method |-> Take(line, e1),
              len |-> SubSeq(line, e2 + 1, e3)]
        ELSE Fail
      Space(e1, e2) ==
        IF e2 > e1
        THEN Once(LAMBDA e3 : Number(e1, e2, e3), Span(line, e2 + 1, Digit))
        ELSE Fail
      Word(e1) ==
        IF e1 >= 1 THEN Once(LAMBDA e2 : Space(e1, e2), Span(line, e1 + 1, WS))
        ELSE Fail
  IN  Once(Word, Span(line, 1, WordChar))

\* ------------------------------------------------------------------------
\* Filenames: unescape_c, scan_quoted, extract_filename, _find_name
\* ------------------------------------------------------------------------

\* The value of an expression whose evaluation raises NameError: process_escape
\* reads the undefined name e for \x and octal escapes.
NameError == <<"NameError">>

\* The value of a string holding a character the model has no spelling for:
\* unichr() of a \uXXXX or \UXXXXXXXX escape, or the control character of
\* \a, \b or \v.
OtherChar == <<"OtherChar">>

HexDigit == Digit \cup {"a", "b", "c", "d", "e", "f", "A", "B", "C", "D", "E", "F"}

\* _ESCAPES.get(esc) for the character after the backslash, <<>> for no entry
ESCAPES(c) ==
  CASE c = "t" -> <<"\t">>
    [] c = "n" -> <<"\n">>
    [] c = "f" -> <<"\f">>
    [] c = "r" -> <<"\r">>
    [] c = "\"" -> <<"\"">>
    [] c = "'" -> <<"'">>
    [] c = "\\" -> <<"\\">>
    [] OTHER -> <<>>

\* unescape_c(s): left to right; a backslash that ends the string or stands
\* before a newline is no escape and is kept.  An escape that raises makes
\* the whole call raise.
RECURSIVE unescape_c(_)
unescape_c(s) ==
  LET Plain(r) == IF r \in {NameError, OtherChar} THEN r ELSE <<s[1]>> \o r
      Escape(c, uni, r) ==
        IF r = NameError THEN NameError
        ELSE IF ~uni /\ (c = "x" \/ c \in OctDigit) THEN NameError
        ELSE IF uni \/ c \in {"a", "b", "v"} \/ r = OtherChar THEN OtherChar
        ELSE IF ESCAPES(c) # <<>> THEN ESCAPES(c) \o r
        ELSE <<c>> \o r
      Unicode(c, hex) == (c = "u" /\ hex >= 6) \/ (c = "U" /\ hex >= 10)
  IN  IF s = <<>> THEN <<>>
      ELSE IF s[1] # "\\" \/ Len(s) = 1 \/ s[2] = "\n"
      THEN Once(Plain, unescape_c(Tail(s)))
      ELSE Once(LAMBDA r : Escape(s[2], Unicode(s[2], Span(s, 3, HexDigit)), r),
                unescape_c(Drop(s, 2)))

\* The scan of scan_quoted from (1-based) position i: where the raw text ends
\* and the value of ndx (0-based) that is returned.
RECURSIVE ScanQuotedFrom(_, _)
ScanQuotedFrom(line, i) ==
  LET interesting(k) == \/ line[k] = "\""
                        \/ line[k] = "\\" /\ k < Len(line) /\ line[k + 1] # "\n"
      hit == \E k \in i..Len(line) : interesting(k)
      p == CHOOSE k \in i..Len(line) :
             interesting(k) /\ \A j \in i..(k - 1) : ~interesting(j)
  IN  IF i > Len(line) \/ ~hit THEN [rawend |-> Len(line), ndx |-> i - 1]
      ELSE IF line[p] = "\"" THEN [rawend |-> p - 1, ndx |-> p]
      ELSE ScanQuotedFrom(line, p + 2)

\* scan_quoted(line, ndx, encoding), ndx 0-based as in the source
scan_quoted(line, ndx) ==
  LET Of(r) == [name |-> unescape_c(SubSeq(line, ndx + 2, r.rawend)),
                ndx |-> r.ndx]
  IN  Once(Of, ScanQuotedFrom(line, ndx + 2))

\* _GIT_ARG_RE.match(line, ndx).group(1):  (?:[^/]+)/(.*)\s+(?:[^/]+)/\1
\* None for no match.  The group is greedy: the longest text for which the
\* rest of the expression still matches.
GIT_ARG_RE_group(line, ndx) ==
  LET Group(s1, p) ==
        LET rest(e) ==
              \E w \in (e + 1)..Len(line) :
                /\ \A k \in (e + 1)..w : line[k] \in WS
                /\ \E j \in (w + 2)..Len(line) :
                     /\ line[j] = "/"
                     /\ \A k \in (w + 1)..(j - 1) : line[k] # "/"
                     /\ j + (e - p + 1) <= Len(line)
                     /\ SubSeq(line, j + 1, j + (e - p + 1)) = SubSeq(line, p, e)
            Longest(cand) ==
              IF cand = {} THEN None
              ELSE SubSeq(line, p, CHOOSE e \in cand : \A f \in cand : f <= e)
        IN  IF s1 < ndx + 1 \/ s1 + 1 > Len(line) THEN None
            ELSE Once(Longest, {e \in (p - 1)..Len(line) :
                                  (\A k \in p..e : line[k] # "\n") /\ rest(e)})
      First(s1) == Group(s1, s1 + 2)
  IN  Once(First, SpanNot(line, ndx + 1, {"/"}))

\* extract_filename(line)
extract_filename(line) ==
  LET dlen == Len(line)
      \* lines 116-125: the two arguments after the split at the first '/'
      Same(a, b) ==
        IF Len(a) < 2 \/ Len(b) < 2 THEN None
        ELSE IF a[2] # b[2] THEN None
        ELSE a[2]
      Pair(first, second) ==
        IF NameError \in {first, second} THEN NameError
        ELSE IF OtherChar \in {first, second} THEN OtherChar
        ELSE Once(LAMBDA a : Once(LAMBDA b : Same(a, b), SplitSlash(second)),
                  SplitSlash(first))
      \* lines 90-102: the first argument is quoted
      Second(first, sp) ==
        Once(LAMBDA second : Pair(first, second),
             IF sp < dlen /\ line[sp + 1] = "\"" THEN scan_quoted(line, sp).name
             ELSE Drop(line, sp))
      Space(q1, sp) == IF sp < q1.ndx + 1 THEN None ELSE Second(q1.name, sp)
      Quoted(q1) == Once(LAMBDA sp : Space(q1, sp), Span(line, q1.ndx + 1, WS))
      \* lines 103-114: the first argument is not quoted
      Unquoted(ndx, q2) ==
        IF q2 = 0 THEN GIT_ARG_RE_group(line, ndx)
        ELSE Once(LAMBDA second :
                    Pair(RStrip(SubSeq(line, ndx + 1, q2 - 1),
                                {" ", "\t", "\r", "\n"}), second),
                  scan_quoted(line, q2 - 1).name)
      At(ndx) ==
        IF ndx = 0 \/ ndx >= dlen THEN None
        ELSE IF line[ndx + 1] = "\"" THEN Once(Quoted, scan_quoted(line, ndx))
        ELSE Once(LAMBDA q2 : Unquoted(ndx, q2), FindFrom(line, "\"", ndx + 1))
  IN  Once(At, GIT_RE_end(line))

\* _DATE_RE.search(s): the start of the first match, 0 for none.  Every match
\* holds a clock \d{2}:\d{2}:\d{2}; the model decides the numeric form
\*   \d{4}-\d{2}-\d{2}\s+\d{2}:\d{2}:\d{2}(?:\.\d+)?(?:\s+[+-]\d{2}:?\d{2})?\s*$
\* and no modelled input spells a date with the names of a day and a month.
DATE_RE_search(s) ==
  LET digits(i, n) == i + n - 1 <= Len(s) /\ \A k \in i..(i + n - 1) : s[k] \in Digit
      is(i, c) == i <= Len(s) /\ s[i] = c
      allws(i) == \A k \in i..Len(s) : s[k] \in WS
      utcoff(w, c) ==
        /\ w + 1 <= Len(s) /\ s[w + 1] \in {"+", "-"}
        /\ digits(w + 2, 2) /\ digits(c, 2) /\ allws(c + 2)
      zone(i, w) ==
        w >= i /\ utcoff(w, IF is(w + 4, ":") THEN w + 5 ELSE w + 4)
      tail(i) ==
        \/ allws(i)
        \/ i <= Len(s) + 1 /\ Once(LAMBDA w : zone(i, w), Span(s, i, WS))
      clock(i, w) ==
        /\ w >= i + 10
        /\ digits(w + 1, 2) /\ is(w + 3, ":") /\ digits(w + 4, 2)
        /\ is(w + 6, ":") /\ digits(w + 7, 2)
        /\ Once(tail, IF is(w + 9, ".") /\ digits(w + 10, 1)
                      THEN Span(s, w + 10, Digit) + 1 ELSE w + 9)
      at(i) ==
        /\ digits(i, 4) /\ is(i + 4, "-") /\ digits(i + 5, 2) /\ is(i + 7, "-")
        /\ digits(i + 8, 2)
        /\ Once(LAMBDA w : clock(i, w), Span(s, i + 10, WS))
      First(hits) ==
        IF hits = {} THEN 0 ELSE CHOOSE i \in hits : \A j \in hits : i <= j
  IN  Once(First, {i \in 1..Len(s) : at(i)})

\* _find_name(s, defname, encoding, with_date)
find_name(s0, defname, with_date) ==
  LET \* lines 156-166
      Path(name, parts) ==
        IF name \in {NameError, OtherChar} THEN name
        ELSE IF Len(parts) < 2 THEN defname
        ELSE IF defname # None /\ StartsWith(parts[2], defname) THEN defname
        ELSE parts[2]
      Named(name) ==
        Once(LAMBDA parts : Path(name, parts), SplitSlash(Strip(name, {" ", "\t"})))
      \* lines 141-154
      Cut(s, ndx) == IF ndx > 1 THEN Take(s, ndx - 1) ELSE s
      Blank(s, tab) ==
        Once(LAMBDA ndx : Cut(s, ndx), IF tab > 0 THEN tab ELSE FindFrom(s, " ", 1))
      Plain(s, d) ==
        IF d > 1 THEN Take(s, d - 1)
        ELSE Once(LAMBDA tab : Blank(s, tab), FindFrom(s, "\t", 1))
      In(s) ==
        IF StartsWith(s, <<"\"">>) THEN Once(Named, scan_quoted(s, 0).name)
        ELSE Once(Named, Once(LAMBDA d : Plain(s, d),
                              IF with_date THEN DATE_RE_search(s) ELSE 0))
  IN  Once(In, LStrip(s0, WS))

\* _extract_name(s, encoding)
extract_name(s0) ==
  LET Of(name) ==
        IF StartsWith(name, <<"\"">>) THEN scan_quoted(name, 0).name ELSE name
  IN  Once(Of, Strip(s0, WS))

\* ------------------------------------------------------------------------
\* Change and Hunk (change.py)
\* ------------------------------------------------------------------------

\* Python None where the other values are integers (a file mode)
NoMode == -1

\* An object's attributes set outside __init__ (old_mode, new_mode,
\* similarity, dissimilarity) are a function on the names that are set.
SetAttr(attrs, name, v) ==
  [x \in (DOMAIN attrs) \cup {name} |-> IF x = name THEN v ELSE attrs[x]]

NoAttrs == [x \in {} |-> 0]

\* Change.__init__
Change(source, dest) ==
  [kind |-> "change", binary |-> FALSE, hunks |-> <<>>,
   source |-> source, dest |-> dest, attrs |-> NoAttrs]

Rename(source, dest) == [Change(source, dest) EXCEPT !.kind = "rename"]

Copy(source, dest) == [Change(source, dest) EXCEPT !.kind = "copy"]

\* Delete.__init__(source, old_mode)
Delete(source, old_mode) ==
  [Change(source, None) EXCEPT !.kind = "delete",
                               !.attrs = SetAttr(NoAttrs, "old_mode", old_mode)]

\* Add.__init__(dest, mode)
Add(dest, mode) ==
  [Change(None, dest) EXCEPT !.kind = "add",
                             !.attrs = SetAttr(NoAttrs, "new_mode", mode)]

\* TextHunk.__init__
TextHunk(start_a, len_a, start_b, len_b) ==
  [type |-> "text", start_a |-> start_a, len_a |-> len_a,
   start_b |-> start_b, len_b |-> len_b, lines |-> <<>>]

\* BinaryHunk.__init__
BinaryHunk(length, method, data, reverse) ==
  [type |-> "binary", length |-> length, method |-> method,
   data |-> data, reverse |-> reverse]

\* s.endswith('\r\n')
EndsWithCRLF(s) == Len(s) >= 2 /\ s[Len(s) - 1] = "\r" /\ s[Len(s)] = "\n"

\* TextHunk.fix_final_newline, on a hunk with at least one line (on an empty
\* list lines[-1] raises IndexError, which the callers model)
fix_final_newline(h) ==
  LET l == h.lines[Len(h.lines)]
      nl == IF EndsWithCRLF(l[2]) THEN Take(l[2], Len(l[2]) - 2)
            ELSE IF l[2] = <<>> THEN <<>>
            ELSE Take(l[2], Len(l[2]) - 1)
  IN  [h EXCEPT !.lines[Len(h.lines)] = <<l[1], nl>>]

\* ------------------------------------------------------------------------
\* base85 and zlib (collaborators of _parse_binary_hunk)
\* ------------------------------------------------------------------------

\* The 85 digits in order.  A backquote cannot be written in a TLA+ string:
\* its place (value 82) is held by a name no character equals, and no modelled
\* line holds a backquote.
B85_ALPHABET ==
  <<"0", "1", "2", "3", "4", "5", "6", "7", "8", "9", "A", "B", "C", "D",
    "E", "F", "G", "H", "I", "J", "K", "L", "M", "N", "O", "P", "Q", "R",
    "S", "T", "U", "V", "W", "X", "Y", "Z", "a", "b", "c", "d", "e", "f",
    "g", "h", "i", "j", "k", "l", "m", "n", "o", "p", "q", "r", "s", "t",
    "u", "v", "w", "x", "y", "z", "!", "#", "$", "%", "&", "(", ")", "*",
    "+", "-", ";", "<", "=", ">", "?", "@", "^", "_", "<backtick>", "{", "|", "}",
    "~">>

B85Val(c) == (CHOOSE i \in 1..85 : B85_ALPHABET[i] = c) - 1

B85Valid(s) == \A k \in 1..Len(s) : \E i \in 1..85 : B85_ALPHABET[i] = s[k]

\* One step of reading a base-85 number into four bytes (big-endian):
\* b * 85 + d, byte by byte so that no intermediate value leaves 32 bits.
B85MulAdd(b, d) ==
  LET V1(v1, v2, v3, v4) == <<v1 % 256, v2 % 256, v3 % 256, v4 % 256>>
      V2(v2, v3, v4) ==
        Once(LAMBDA v1 : V1(v1, v2, v3, v4), b[1] * 85 + v2 \div 256)
      V3(v3, v4) == Once(LAMBDA v2 : V2(v2, v3, v4), b[2] * 85 + v3 \div 256)
      V4(v4) == Once(LAMBDA v3 : V3(v3, v4), b[3] * 85 + v4 \div 256)
  IN  Once(V4, b[4] * 85 + d)

\* base85_decode(s) for a string of 5n valid characters: 4n bytes, each group
\* of five a base-85 number written big-endian.
RECURSIVE base85_decode(_)
base85_decode(s) ==
  IF Len(s) < 5 THEN <<>>
  ELSE LET Digit85(b, k) == Once(LAMBDA d : B85MulAdd(b, d), B85Val(s[k]))
           D5(b) == Digit85(b, 5)
           D4(b) == Once(D5, Digit85(b, 4))
           D3(b) == Once(D4, Digit85(b, 3))
           D2(b) == Once(D3, Digit85(b, 2))
       IN  Once(D2, Digit85(<<0, 0, 0, 0>>, 1)) \o base85_decode(Drop(s, 5))

\* zlib.compress("xyz")
ZSTREAM_XYZ == <<120, 156, 171, 168, 172, 2, 0, 2, 215, 1, 108>>

\* zlib.decompress(d) on the byte strings the modelled inputs produce: a
\* complete stream followed by anything inflates to its payload (trailing
\* bytes are ignored), anything else is an error, written None.
zlib_decompress(d) ==
  IF StartsWith(d, ZSTREAM_XYZ) THEN <<120, 121, 122>> ELSE None

\* ------------------------------------------------------------------------
\* Input texts
\* ------------------------------------------------------------------------

L_DIFF_GIT ==
  <<"d", "i", "f", "f", " ", "-", "-", "g", "i", "t", " ", "a", "/", "f",
    "o", "o", " ", "b", "/", "f", "o", "o", "\n">>

L_DIFF_U ==
  <<"d", "i", "f", "f", " ", "-", "u", " ", "a", "/", "f", "o", "o", " ",
    "b", "/", "f", "o", "o", "\n">>

L_DELETED ==
  <<"d", "e", "l", "e", "t", "e", "d", " ", "f", "i", "l", "e", " ", "m",
    "o", "d", "e", " ", "1", "0", "0", "6", "4", "4", "\n">>

L_NEW_FILE ==
  <<"n", "e", "w", " ", "f", "i", "l", "e", " ", "m", "o", "d", "e", " ",
    "1", "0", "0", "6", "4", "4", "\n">>

L_SIMILARITY ==
  <<"s", "i", "m", "i", "l", "a", "r", "i", "t", "y", " ", "i", "n", "d",
    "e", "x", " ", "9", "0", "\n">>

L_RENAME_FROM ==
  <<"r", "e", "n", "a", "m", "e", " ", "f", "r", "o", "m", " ", "f", "o",
    "o", "\n">>

L_RENAME_TO ==
  <<"r", "e", "n", "a", "m", "e", " ", "t", "o", " ", "b", "a", "r", "\n">>

L_COPY_FROM ==
  <<"c", "o", "p", "y", " ", "f", "r", "o", "m", " ", "f", "o", "o", "\n">>

L_COPY_TO ==
  <<"c", "o", "p", "y", " ", "t", "o", " ", "b", "a", "r", "\n">>

L_OLD_MODE ==
  <<"o", "l", "d", " ", "m", "o", "d", "e", " ", "1", "0", "0", "6", "4",
    "4", "\n">>

L_NEW_MODE ==
  <<"n", "e", "w", " ", "m", "o", "d", "e", " ", "1", "0", "0", "7", "5",
    "5", "\n">>

L_DISSIMILARITY ==
  <<"d", "i", "s", "s", "i", "m", "i", "l", "a", "r", "i", "t", "y", " ",
    "i", "n", "d", "e", "x", " ", "1", "0", "\n">>

L_MINUS_A ==
  <<"-", "-", "-", " ", "a", "/", "f", "o", "o", "\n">>

L_PLUS_B ==
  <<"+", "+", "+", " ", "b", "/", "f", "o", "o", "\n">>

L_MINUS_NULL ==
  <<"-", "-", "-", " ", "/", "d", "e", "v", "/", "n", "u", "l", "l", "\n">>

L_PLUS_NULL ==
  <<"+", "+", "+", " ", "/", "d", "e", "v", "/", "n", "u", "l", "l", "\n">>

L_JUNK ==
  <<"F", "i", "x", " ", "t", "h", "e", " ", "p", "a", "r", "s", "e", "r",
    "\n">>

L_BINARY ==
  <<"G", "I", "T", " ", "b", "i", "n", "a", "r", "y", " ", "p", "a", "t",
    "c", "h", "\n">>

L_LITERAL ==
  <<"l", "i", "t", "e", "r", "a", "l", " ", "3", "\n">>

L_DATA ==
  <<"K", "c", "$", "}", "-", "K", "t", "O", "5", "W", "6", "*", "8", "y",
    "w", "*", "\n">>

L_DATA_SHORT ==
  <<"Z", "c", "$", "}", "-", "K", "t", "O", "5", "W", "6", "*", "8", "y",
    "w", "*", "\n">>

L_BLANK ==
  <<"\n">>

L_HUNK_1_1 ==
  <<"@", "@", " ", "-", "1", " ", "+", "1", " ", "@", "@", "\n">>

L_HUNK_0_1 ==
  <<"@", "@", " ", "-", "0", ",", "0", " ", "+", "1", " ", "@", "@", "\n">>

L_HUNK_2_1 ==
  <<"@", "@", " ", "-", "1", ",", "2", " ", "+", "1", " ", "@", "@", "\n">>

L_OLD_X ==
  <<"-", "x", "\n">>

L_NEW_Y ==
  <<"+", "y", "\n">>

L_CTX_C ==
  <<" ", "c", "\n">>

L_NEW_Y_CRLF ==
  <<"+", "y", "\r", "\n">>

L_NO_NEWLINE ==
  <<"\\", " ", "N", "o", " ", "n", "e", "w", "l", "i", "n", "e", " ", "a",
    "t", " ", "e", "n", "d", " ", "o", "f", " ", "f", "i", "l", "e", "\n">>

L_STAR_A ==
  <<"*", "*", "*", " ", "a", "/", "f", "o", "o", "\n">>

L_MINUS_B ==
  <<"-", "-", "-", " ", "b", "/", "f", "o", "o", "\n">>

L_STARS ==
  <<"*", "*", "*", "*", "*", "*", "*", "*", "*", "*", "*", "*", "*", "*",
    "*", "\n">>

L_CTX_OLD ==
  <<"*", "*", "*", " ", "1", " ", "*", "*", "*", "*", "\n">>

L_CTX_NEW ==
  <<"-", "-", "-", " ", "1", " ", "-", "-", "-", "-", "\n">>

L_BANG_X ==
  <<"!", " ", "x", "\n">>

L_CTX_CC ==
  <<" ", " ", "c", "\n">>

\* All sequences over S of length at most n
RECURSIVE SeqsUpTo(_, _)
SeqsUpTo(S, n) ==
  IF n = 0 THEN {<<>>}
  ELSE LET shorter == SeqsUpTo(S, n - 1)
       IN  shorter \cup {Append(q, x) : q \in shorter, x \in S}

\* Bounds of the input families (numbers of lines)
MaxGitLen == 4

MaxHunkLen == 4

MaxBinLen == 5

MaxCtxLen == 3

MaxCrlfLen == 3

MaxCtxBodyLen == 3

\* How far below zero the model tells the values of a hunk counter apart (the
\* counters are Python integers; see Dec)
NegFold == 2

\* The bound of the inputs of FairSpec (numbers of lines)
MaxFairLen == 3

\* Any text of at most n header lines, with and without a diff header before
\* them
GitInputs(n) ==
  SeqsUpTo({L_DIFF_GIT, L_DELETED, L_SIMILARITY, L_RENAME_FROM, L_RENAME_TO,
            L_MINUS_A, L_PLUS_B, L_PLUS_NULL, L_BINARY, L_JUNK}, n)

\* A git header followed by at most n of the remaining extended headers
ModeInputs(n) ==
  {<<L_DIFF_GIT>> \o t :
     t \in SeqsUpTo({L_NEW_FILE, L_MINUS_NULL, L_PLUS_B, L_COPY_FROM, L_COPY_TO,
                     L_OLD_MODE, L_NEW_MODE, L_DISSIMILARITY}, n)}

\* A unified file header followed by any text of at most n hunk lines
HunkInputs(n) ==
  {<<L_DIFF_U, L_MINUS_A, L_PLUS_B>> \o t :
     t \in SeqsUpTo({L_HUNK_1_1, L_HUNK_0_1, L_HUNK_2_1, L_OLD_X, L_NEW_Y,
                     L_CTX_C, L_NO_NEWLINE, L_BLANK, L_DIFF_GIT}, n)}

\* A hunk header for one old and one new line followed by at most n lines, of
\* which some end with \r\n
CrlfInputs(n) ==
  {<<L_DIFF_U, L_MINUS_A, L_PLUS_B, L_HUNK_1_1>> \o t :
     t \in SeqsUpTo({L_OLD_X, L_NEW_Y_CRLF, L_NO_NEWLINE}, n)}

\* A binary patch marker followed by any text of at most n binary patch lines
BinInputs(n) ==
  {<<L_DIFF_GIT, L_BINARY>> \o t :
     t \in SeqsUpTo({L_LITERAL, L_DATA, L_DATA_SHORT, L_BLANK, L_RENAME_FROM,
                     L_DIFF_GIT}, n)}

\* A context file header followed by any text of at most n context hunk lines
CtxInputs(n) ==
  {<<L_DIFF_U, L_STAR_A, L_MINUS_B>> \o t :
     t \in SeqsUpTo({L_STARS, L_CTX_OLD, L_CTX_NEW, L_BANG_X, L_NO_NEWLINE,
                     L_DIFF_U}, n)}

\* A context file header, the row of asterisks and the header of the old
\* block, followed by at most n lines of the two blocks
CtxHunkInputs(n) ==
  {<<L_DIFF_U, L_STAR_A, L_MINUS_B, L_STARS, L_CTX_OLD>> \o t :
     t \in SeqsUpTo({L_BANG_X, L_CTX_CC, L_CTX_NEW}, n)}

Inputs ==
  GitInputs(MaxGitLen) \cup ModeInputs(MaxGitLen - 1) \cup HunkInputs(MaxHunkLen)
    \cup BinInputs(MaxBinLen) \cup CtxInputs(MaxCtxLen) \cup CrlfInputs(MaxCrlfLen)
    \cup CtxHunkInputs(MaxCtxBodyLen)

\* The same families, shorter
FairInputs ==
  GitInputs(MaxFairLen) \cup ModeInputs(MaxFairLen - 1) \cup HunkInputs(MaxFairLen)
    \cup BinInputs(MaxFairLen) \cup CtxInputs(MaxFairLen)

\* ------------------------------------------------------------------------
\* The git extended header handlers
\* ------------------------------------------------------------------------

\* The end of a match of  w1\s+w2\s+ ... wn\s+  that starts at position i of
\* s; -1 when there is none.
RECURSIVE MatchWords(_, _, _)
MatchWords(s, words, i) ==
  IF words = <<>> THEN i - 1
  ELSE LET w == Head(words)
           e == i + Len(w) - 1
       IN  IF /\ e <= Len(s)
              /\ SubSeq(s, i, e) = w
              /\ Span(s, e + 1, WS) > e
           THEN MatchWords(s, Tail(words), Span(s, e + 1, WS) + 1)
           ELSE -1

\* The table of regular expressions and handlers, in the order they are tried.
\* arg is the form of the group that ends the expression: (.*)$, ([0-7]+)$ or
\* ([0-9]+)$.
git_handlers ==
  <<
    [handler |-> "rename_from", arg |-> "any",
     words |-> {<<<<"r", "e", "n", "a", "m", "e">>, <<"f", "r", "o", "m">>>>,
               <<<<"r", "e", "n", "a", "m", "e">>, <<"o", "l", "d">>>>}],
    [handler |-> "rename_to", arg |-> "any",
     words |-> {<<<<"r", "e", "n", "a", "m", "e">>, <<"t", "o">>>>,
               <<<<"r", "e", "n", "a", "m", "e">>, <<"n", "e", "w">>>>}],
    [handler |-> "copy_from", arg |-> "any",
     words |-> {<<<<"c", "o", "p", "y">>, <<"f", "r", "o", "m">>>>}],
    [handler |-> "copy_to", arg |-> "any",
     words |-> {<<<<"c", "o", "p", "y">>, <<"t", "o">>>>}],
    [handler |-> "delete", arg |-> "oct",
     words |-> {<<<<"d", "e", "l", "e", "t", "e", "d">>, <<"f", "i", "l", "e">>, <<"m", "o", "d", "e">>>>}],
    [handler |-> "new", arg |-> "oct",
     words |-> {<<<<"n", "e", "w">>, <<"f", "i", "l", "e">>, <<"m", "o", "d", "e">>>>}],
    [handler |-> "old_mode", arg |-> "oct",
     words |-> {<<<<"o", "l", "d">>, <<"m", "o", "d", "e">>>>}],
    [handler |-> "new_mode", arg |-> "oct",
     words |-> {<<<<"n", "e", "w">>, <<"m", "o", "d", "e">>>>}],
    [handler |-> "similarity", arg |-> "dec",
     words |-> {<<<<"s", "i", "m", "i", "l", "a", "r", "i", "t", "y">>, <<"i", "n", "d", "e", "x">>>>}],
    [handler |-> "dissimilarity", arg |-> "dec",
     words |-> {<<<<"d", "i", "s", "s", "i", "m", "i", "l", "a", "r", "i", "t", "y">>, <<"i", "n", "d", "e", "x">>>>}]
  >>

\* rx.match(sline) for entry i of the table: whether it matches, and group(1)
GitMatch(sline, i) ==
  LET h == git_handlers[i]
      digits == IF h.arg = "oct" THEN OctDigit ELSE Digit
      Group(g) ==
        IF h.arg = "any" THEN [ok |-> TRUE, group |-> g]
        ELSE [ok |-> g # <<>> /\ \A k \in 1..Len(g) : g[k] \in digits,
              group |-> g]
      Ends(ends) ==
        IF ends = {} THEN [ok |-> FALSE, group |-> <<>>]
        ELSE Once(Group, Drop(sline, CHOOSE e \in ends : TRUE))
  IN  Once(Ends, {MatchWords(sline, w, 1) : w \in h.words} \ {-1})

\* The handlers.  c is the Change object (its fields), g is match.group(1).
\* The result tells whether `change` is rebound to a new object (new), and the
\* fields of the object `change` is bound to afterwards.
handle_rename_from(g, c) ==
  IF c.kind # "rename"
  THEN [new |-> TRUE, obj |-> Rename(extract_name(g), None)]
  ELSE [new |-> FALSE, obj |-> [c EXCEPT !.source = extract_name(g)]]

handle_rename_to(g, c) ==
  IF c.kind # "rename"
  THEN [new |-> TRUE, obj |-> Rename(None, extract_name(g))]
  ELSE [new |-> FALSE, obj |-> [c EXCEPT !.dest = extract_name(g)]]

handle_copy_from(g, c) ==
  IF c.kind # "copy"
  THEN [new |-> TRUE, obj |-> Copy(extract_name(g), None)]
  ELSE [new |-> FALSE, obj |-> [c EXCEPT !.source = extract_name(g)]]

handle_copy_to(g, c) ==
  IF c.kind # "copy"
  THEN [new |-> TRUE, obj |-> Copy(None, extract_name(g))]
  ELSE [new |-> FALSE, obj |-> [c EXCEPT !.dest = extract_name(g)]]

\* A handler that makes the Delete without the mode of the header line
handle_delete_NoMode(g, defname) ==
  [new |-> TRUE, obj |-> Delete(defname, NoMode)]

handle_delete(g, defname) ==
  [new |-> TRUE, obj |-> Delete(defname, ParseInt(g, 8))]

handle_new(g, defname) ==
  [new |-> TRUE, obj |-> Add(defname, ParseInt(g, 8))]

handle_old_mode(g, c) ==
  [new |-> FALSE,
   obj |-> [c EXCEPT !.attrs = SetAttr(c.attrs, "old_mode", ParseInt(g, 8))]]

handle_new_mode(g, c) ==
  [new |-> FALSE,
   obj |-> [c EXCEPT !.attrs = SetAttr(c.attrs, "new_mode", ParseInt(g, 8))]]

handle_similarity(g, c) ==
  [new |-> FALSE,
   obj |-> [c EXCEPT !.attrs = SetAttr(c.attrs, "similarity", ParseInt(g, 10))]]

handle_dissimilarity(g, c) ==
  [new |-> FALSE,
   obj |-> [c EXCEPT !.attrs =
                       SetAttr(c.attrs, "dissimilarity", ParseInt(g, 10))]]

\* handler(sline, m, change, default_filename, encoding)
CallHandler(name, g, c, defname) ==
  CASE name = "rename_from"   -> handle_rename_from(g, c)
    [] name = "rename_to"     -> handle_rename_to(g, c)
    [] name = "copy_from"     -> handle_copy_from(g, c)
    [] name = "copy_to"       -> handle_copy_to(g, c)
    [] name = "delete"        -> handle_delete(g, defname)
    [] name = "new"           -> handle_new(g, defname)
    [] name = "old_mode"      -> handle_old_mode(g, c)
    [] name = "new_mode"      -> handle_new_mode(g, c)
    [] name = "similarity"    -> handle_similarity(g, c)
    [] name = "dissimilarity" -> handle_dissimilarity(g, c)

\* ------------------------------------------------------------------------
\* State
\* ------------------------------------------------------------------------

VARIABLES
  input,             \* the lines of file_or_str
  pos,               \* how many lines Linebuffer.f has handed out
  buffered,          \* Linebuffer.buffered
  pc,                \* where the generator stands
  err,               \* the exception parse() raised, "" when none
  line,              \* parse: the loop variable
  change,            \* parse: the object `change` is bound to, 0 for None
  heap,              \* the Change objects created so far, by identity
  yielded,           \* the identities handed to the consumer, in order
  default_filename,  \* parse: default_filename
  scanning_git,      \* parse: scanning_git
  mode,              \* parse: mode ("none" for None)
  hunk,              \* the hunk parsers: hunk
  la,                \* the hunk parsers: la
  lb,                \* the hunk parsers: lb
  born,              \* history: for each object of heap, the number of the diff
                     \* header after which it was created
  hstart,            \* history: pos when the last unified hunk body began
  nhdr,              \* history: the number of diff header lines parse() passed
  calls,             \* history: the calls made on a Linebuffer by a caller
                     \* other than parse(), with the line pushed or returned
  header,            \* extract_filename: line
  filename,          \* extract_filename: the value returned
  delta,             \* decode_delta: delta, its type and its bytes
  ptr,               \* decode_delta: ptr
  offset,            \* decode_delta: offset
  instrs,            \* decode_delta: the tuples yielded, in order
  dpc,               \* decode_delta: where the generator stands
  derr,              \* decode_delta: the exception raised, "" when none
  rendered,          \* <<c>> when the text being parsed is str(c) of the
                     \* Change c, <<>> when it does not come from a Change
  cache_size,        \* LRUCache: self.cache_size, 0 when no cache is made
  cache,             \* LRUCache: self.cache
  cache_keys,        \* LRUCache: self.cache_keys
  returned,          \* LRUCache: the value the last __getitem__ returned
  stored,            \* history: for each key, the value last stored under it
  used,              \* history: for each key, the number of the last call
                     \* that stored it or found it, 0 when there is none
  ncalls             \* history: the number of calls made on the cache

\* The variables of a call of parse()
parse_vars ==
  <<input, pos, buffered, pc, err, line, change, heap, yielded,
    default_filename, scanning_git, mode, hunk, la, lb, born, hstart, nhdr>>

\* The variables outside a call of parse(), which no step of parse() changes
buf_vars == <<calls>>

name_vars == <<header, filename>>

delta_vars == <<delta, ptr, offset, instrs, dpc, derr>>

round_vars == <<rendered>>

lru_vars == <<cache_size, cache, cache_keys, returned, stored, used, ncalls>>

outside == <<buf_vars, name_vars, delta_vars, round_vars, lru_vars>>

vars == <<parse_vars, outside>>

\* The state when parse(file_or_str) is called on the text `text`
Called(text) ==
  /\ input = text
  /\ pos = 0
  /\ buffered = <<>>
  /\ pc = "loop"
  /\ err = ""
  /\ line = None
  /\ change = 0
  /\ heap = <<>>
  /\ yielded = <<>>
  /\ default_filename = None
  /\ scanning_git = FALSE
  /\ mode = "none"
  /\ hunk = TextHunk(0, 0, 0, 0)
  /\ la = 0
  /\ lb = 0
  /\ born = <<>>
  /\ hstart = 0
  /\ nhdr = 0

\* What is not part of a call of parse() is at rest while parse() runs
\* The value of a result before the call that gives it
NotCalled == <<"NotCalled">>

BufIdle == calls = <<>>

NameIdle == header = <<>> /\ filename = NotCalled

DeltaIdle ==
  /\ delta = [type |-> "bytearray", bytes |-> <<>>]
  /\ ptr = 0
  /\ offset = 0
  /\ instrs = <<>>
  /\ dpc = "idle"
  /\ derr = ""

RoundIdle == rendered = <<>>

\* No LRUCache has been made
LruIdle ==
  /\ cache_size = 0
  /\ cache = <<>>
  /\ cache_keys = <<>>
  /\ returned = NotCalled
  /\ stored = <<>>
  /\ used = <<>>
  /\ ncalls = 0

Idle == BufIdle /\ NameIdle /\ DeltaIdle /\ RoundIdle /\ LruIdle

Init == (\E text \in Inputs : Called(text)) /\ Idle

FairInit == (\E text \in FairInputs : Called(text)) /\ Idle

\* ------------------------------------------------------------------------
\* Linebuffer
\* ------------------------------------------------------------------------

\* Linebuffer.next raises StopIteration
AtEnd == buffered = <<>> /\ pos >= Len(input)

\* Linebuffer.readline on a buffer b over a stream at position p: the line
\* returned ('' at the end of the input) and the buffer and position left
Readline(b, p) ==
  IF b # <<>> THEN [line |-> Head(b), buf |-> Tail(b), pos |-> p]
  ELSE IF p < Len(input) THEN [line |-> input[p + 1], buf |-> b, pos |-> p + 1]
  ELSE [line |-> <<>>, buf |-> b, pos |-> p]

\* Linebuffer.next, when it does not raise
cur == Readline(buffered, pos)

\* Linebuffer.push
Push(b, l) == Append(b, l)

\* The most calls made on a Linebuffer by a caller other than parse()
MaxCalls == 4

\* The most lines of the text under such a Linebuffer
MaxBufLen == 2

\* The lines of those texts, and the lines pushed
BufLines == {L_CTX_C, L_JUNK}

PushLines == {L_OLD_X, L_NEW_Y}

\* Linebuffer(file_or_str) for each text, before any call
BufInit ==
  /\ \E text \in SeqsUpTo(BufLines, MaxBufLen) : Called(text)
  /\ Idle

\* source.push(l)
LbPush ==
  /\ Len(calls) < MaxCalls
  /\ \E l \in PushLines :
       /\ buffered' = Push(buffered, l)
       /\ calls' = Append(calls, [op |-> "push", v |-> l])
  /\ UNCHANGED <<input, pos, pc, err, line, change, heap, yielded,
                 default_filename, scanning_git, mode, hunk, la, lb, born,
                 hstart, nhdr, name_vars, delta_vars,
                 round_vars, lru_vars>>

\* source.readline(): the line returned is recorded
LbReadline ==
  /\ Len(calls) < MaxCalls
  /\ \E r \in {Readline(buffered, pos)} :
       /\ buffered' = r.buf
       /\ pos' = r.pos
       /\ calls' = Append(calls, [op |-> "readline", v |-> r.line])
  /\ UNCHANGED <<input, pc, err, line, change, heap, yielded,
                 default_filename, scanning_git, mode, hunk, la, lb, born,
                 hstart, nhdr, name_vars, delta_vars,
                 round_vars, lru_vars>>

BufNext == LbPush \/ LbReadline

\* A Linebuffer used through push and readline alone
BufSpec == BufInit /\ [][BufNext]_vars

\* ------------------------------------------------------------------------
\* parse(): the loop over the lines
\* ------------------------------------------------------------------------

\* ------------------------------------------------------------------------
\* extract_filename() called on `diff --git` headers
\* ------------------------------------------------------------------------

\* Bound of the header family (characters of a path after the first '/')
MaxPathLen == 2

PathChars == {"f", "o", "/"}

NamePaths == SeqsUpTo(PathChars, MaxPathLen)

DIR_FILE_TXT ==
  <<"d", "i", "r", "/", "f", "i", "l", "e", ".", "t", "x", "t">>

\* diff --git a/<path1> b/<path2>
UnquotedHeader(path1, path2) ==
  <<"d", "i", "f", "f", " ", "-", "-", "g", "i", "t", " ", "a", "/">>
    \o path1 \o <<" ", "b", "/">> \o path2

\* diff --git a/"f oo" b/"f oo"
H_QUOTED_NAME ==
  <<"d", "i", "f", "f", " ", "-", "-", "g", "i", "t", " ",
    "a", "/", "\"", "f", " ", "o", "o", "\"", " ",
    "b", "/", "\"", "f", " ", "o", "o", "\"">>

\* diff --git "a/f oo" "b/f oo"
H_QUOTED_ARG ==
  <<"d", "i", "f", "f", " ", "-", "-", "g", "i", "t", " ",
    "\"", "a", "/", "f", " ", "o", "o", "\"", " ",
    "\"", "b", "/", "f", " ", "o", "o", "\"">>

F_OO == <<"f", " ", "o", "o">>

Headers ==
  {UnquotedHeader(p1, p2) : p1 \in NamePaths, p2 \in NamePaths}
    \cup {UnquotedHeader(DIR_FILE_TXT, DIR_FILE_TXT), H_QUOTED_NAME, H_QUOTED_ARG}

NameInit ==
  /\ Called(<<>>)
  /\ BufIdle
  /\ DeltaIdle
  /\ RoundIdle
  /\ LruIdle
  /\ header \in Headers
  /\ filename = NotCalled

\* filename = extract_filename(header)
ExtractFilename ==
  /\ filename = NotCalled
  /\ filename' = extract_filename(header)
  /\ UNCHANGED <<parse_vars, buf_vars, delta_vars, round_vars, lru_vars, header>>

NameNext == ExtractFilename

\* extract_filename applied to one header
NameSpec == NameInit /\ [][NameNext]_vars

\* ------------------------------------------------------------------------
\* utils.decode_delta(): the generator of the instructions of a binary delta
\* ------------------------------------------------------------------------

\* Bound of the delta family (bytes of a delta)
MaxDeltaLen == 3

\* The bytes of the deltas: the opcode 0, short literals, and copies without
\* operand (0x80), with a size byte (0x90)
DeltaBytes == {0, 1, 2, 128, 144}

\* copy 4 bytes from source offset 0; insert 'XY'; copy 4 bytes from source
\* offset 4:  \x90 \x04  \x02 X Y  \x91 \x04 \x04
DELTA_FIXTURE == <<144, 4, 2, 88, 89, 145, 4, 4>>

\* A delta is handed over as a str, whose elements are one-character strings,
\* or as a bytearray, whose elements are integers
Deltas ==
  {[type |-> t, bytes |-> b] :
     t \in {"str", "bytearray"},
     b \in SeqsUpTo(DeltaBytes, MaxDeltaLen) \cup {DELTA_FIXTURE}}

\* cmd & (1 << k)
Bit(cmd, k) == (cmd \div (2 ^ k)) % 2 = 1

\* Lines 26-35: the operands of the copy opcode cmd, ptr being p after the
\* opcode.  Each flag of cmd that is set takes the next byte of the delta;
\* the bytes are or-ed into disjoint bit ranges, which is their sum.
CopyOperands(bytes, cmd, p) ==
  LET Rank(k) == Cardinality({i \in 0..k : Bit(cmd, i)})
      Part(k, shift) ==
        IF Bit(cmd, k) THEN bytes[p + Rank(k)] * (256 ^ shift) ELSE 0
      n == Rank(6)
      size == Part(4, 0) + Part(5, 1) + Part(6, 2)
  IN  IF p + n > Len(bytes) THEN [ok |-> FALSE, src_offset |-> 0, size |-> 0, ptr |-> p]
      ELSE [ok |-> TRUE,
            src_offset |-> Part(0, 0) + Part(1, 1) + Part(2, 2) + Part(3, 3),
            size |-> IF size = 0 THEN 65536 ELSE size,
            ptr |-> p + n]

DeltaRaise(e) == dpc' = "error" /\ derr' = e

\* raise BadBinaryDelta(...): utils.py imports the names of mercury.exceptions,
\* which defines BadBinaryDeltaError and no BadBinaryDelta, so that evaluating
\* the name raises NameError before any exception object is made
RaiseBadBinaryDelta(message) == DeltaRaise("NameError: BadBinaryDelta")

\* The opcode the while loop is about to read
AtOpcode ==
  /\ dpc = "loop"
  /\ ptr < Len(delta.bytes)

DeltaInit ==
  /\ Called(<<>>)
  /\ BufIdle
  /\ NameIdle
  /\ RoundIdle
  /\ LruIdle
  /\ delta \in Deltas
  /\ ptr = 0
  /\ offset = 0
  /\ instrs = <<>>
  /\ dpc = "loop"
  /\ derr = ""

\* Line 24 on a str: cmd is a one-character string and cmd & 0x80 raises
DecodeStr ==
  /\ AtOpcode
  /\ delta.type = "str"
  /\ ptr' = ptr + 1
  /\ DeltaRaise("TypeError")
  /\ UNCHANGED <<parse_vars, buf_vars, name_vars, round_vars, lru_vars, delta, offset, instrs>>

\* Lines 23-39: a copy opcode, up to its yield
DecodeCopy ==
  LET Source(c) ==
        IF ~c.ok
        THEN /\ DeltaRaise("IndexError")
             /\ ptr' = Len(delta.bytes)
             /\ instrs' = instrs
        ELSE /\ instrs' = Append(instrs, <<offset, "source", c.src_offset, c.size>>)
             /\ ptr' = c.ptr
             /\ dpc' = "yield_source"
             /\ derr' = derr
  IN  /\ AtOpcode
      /\ delta.type = "bytearray"
      /\ Bit(delta.bytes[ptr + 1], 7)
      /\ \E c \in {CopyOperands(delta.bytes, delta.bytes[ptr + 1], ptr + 1)} : Source(c)
      /\ UNCHANGED <<parse_vars, buf_vars, name_vars, round_vars, lru_vars, delta, offset>>

\* Lines 41-42: the generator is resumed after the yield of a copy;
\* todo is a local variable that was never assigned
DecodeCopyResume ==
  /\ dpc = "yield_source"
  /\ offset' = offset + instrs[Len(instrs)][4]
  /\ DeltaRaise("UnboundLocalError")
  /\ UNCHANGED <<parse_vars, buf_vars, name_vars, round_vars, lru_vars, delta, ptr, instrs>>

\* Lines 43-49: a literal opcode, up to its yield
DecodeLiteral ==
  LET Literal(cmd, p) ==
        IF p + cmd > Len(delta.bytes)
        THEN RaiseBadBinaryDelta("delta was truncated") /\ instrs' = instrs
        ELSE /\ instrs' = Append(instrs, <<offset, "delta",
                                           SubSeq(delta.bytes, p + 1, p + cmd)>>)
             /\ dpc' = "yield_delta"
             /\ derr' = derr
  IN  /\ AtOpcode
      /\ delta.type = "bytearray"
      /\ ~Bit(delta.bytes[ptr + 1], 7)
      /\ delta.bytes[ptr + 1] # 0
      /\ ptr' = ptr + 1
      /\ Literal(delta.bytes[ptr + 1], ptr + 1)
      /\ UNCHANGED <<parse_vars, buf_vars, name_vars, round_vars, lru_vars, delta, offset>>

\* Line 49: the generator is resumed after the yield of a literal; no
\* statement follows the yield, the loop goes on at ptr
DecodeLiteralResume ==
  /\ dpc = "yield_delta"
  /\ dpc' = "loop"
  /\ UNCHANGED <<parse_vars, buf_vars, name_vars, round_vars, lru_vars, delta, ptr, offset, instrs, derr>>

\* Lines 50-51: the opcode 0
DecodeZero ==
  /\ AtOpcode
  /\ delta.type = "bytearray"
  /\ delta.bytes[ptr + 1] = 0
  /\ ptr' = ptr + 1
  /\ RaiseBadBinaryDelta("unknown opcode 0x00")
  /\ UNCHANGED <<parse_vars, buf_vars, name_vars, round_vars, lru_vars, delta, offset, instrs>>

\* Line 22: ptr has reached the end of the delta, the generator returns
DecodeEnd ==
  /\ dpc = "loop"
  /\ ptr >= Len(delta.bytes)
  /\ dpc' = "done"
  /\ UNCHANGED <<parse_vars, buf_vars, name_vars, round_vars, lru_vars, delta, ptr, offset, instrs, derr>>

DeltaNext ==
  \/ DecodeStr
  \/ DecodeCopy
  \/ DecodeCopyResume
  \/ DecodeLiteral
  \/ DecodeLiteralResume
  \/ DecodeZero
  \/ DecodeEnd

\* decode_delta run to its end on one delta, the consumer asking for every
\* instruction
DeltaSpec == DeltaInit /\ [][DeltaNext]_vars

\* ------------------------------------------------------------------------
\* utils.LRUCache
\* ------------------------------------------------------------------------

\* Bounds of the cache runs: the keys are 1..MaxKeys, cache_size is in
\* 1..MaxCacheSize, and at most MaxLruCalls calls are made
MaxKeys == 3

MaxCacheSize == 2

MaxLruCalls == 5

LruKeys == 1..MaxKeys

LruValues == {<<"v">>, <<"w">>}

\* q.index(x): the first index (from 1) of x in the list q, 0 for ValueError
Index(q, x) ==
  IF \E i \in 1..Len(q) : q[i] = x
  THEN CHOOSE i \in 1..Len(q) : q[i] = x /\ \A j \in 1..(i - 1) : q[j] # x
  ELSE 0

\* del q[i - 1]
Del(q, i) == SubSeq(q, 1, i - 1) \o SubSeq(q, i + 1, Len(q))

\* LRUCache(cache_size)
LruInit ==
  /\ Called(<<>>)
  /\ BufIdle
  /\ NameIdle
  /\ DeltaIdle
  /\ RoundIdle
  /\ cache_size \in 1..MaxCacheSize
  /\ cache = <<>>
  /\ cache_keys = <<>>
  /\ returned = NotCalled
  /\ stored = [k \in LruKeys |-> None]
  /\ used = [k \in LruKeys |-> 0]
  /\ ncalls = 0

\* LruGetItem without lines 68-71: the entry found stays where it is
LruGetItem_InPlace(key) ==
  LET Found(ndx) ==
        IF ndx = 0
        THEN /\ returned' = None
             /\ UNCHANGED <<cache, cache_keys, used>>
        ELSE /\ returned' = cache[ndx]
             /\ UNCHANGED <<cache, cache_keys>>
             /\ used' = [used EXCEPT ![key] = ncalls + 1]
  IN  /\ cache_size > 0
      /\ ncalls < MaxLruCalls
      /\ ncalls' = ncalls + 1
      /\ \E ndx \in {Index(cache_keys, key)} : Found(ndx)
      /\ UNCHANGED <<parse_vars, buf_vars, name_vars, delta_vars, round_vars,
                     cache_size, stored>>

\* self[key]
LruGetItem(key) ==
  LET Found(ndx) ==
        IF ndx = 0
        THEN /\ returned' = None
             /\ UNCHANGED <<cache, cache_keys, used>>
        ELSE /\ returned' = cache[ndx]
             /\ cache' = Append(Del(cache, ndx), cache[ndx])
             /\ cache_keys' = Append(Del(cache_keys, ndx), key)
             /\ used' = [used EXCEPT ![key] = ncalls + 1]
  IN  /\ cache_size > 0
      /\ ncalls < MaxLruCalls
      /\ ncalls' = ncalls + 1
      /\ \E ndx \in {Index(cache_keys, key)} : Found(ndx)
      /\ UNCHANGED <<parse_vars, buf_vars, name_vars, delta_vars, round_vars,
                     cache_size, stored>>

\* LruSetItem without lines 77-78: an entry already held under the key stays
LruSetItem_KeepOld(key, value) ==
  LET Store(ndx) ==
        LET c1 == cache
            k1 == cache_keys
            full == Len(c1) >= cache_size
            c2 == IF full THEN Del(c1, 1) ELSE c1
            k2 == IF full THEN Del(k1, 1) ELSE k1
        IN  /\ cache_keys' = Append(k2, key)
            /\ cache' = Append(c2, value)
  IN  /\ cache_size > 0
      /\ ncalls < MaxLruCalls
      /\ ncalls' = ncalls + 1
      /\ \E ndx \in {Index(cache_keys, key)} : Store(ndx)
      /\ stored' = [stored EXCEPT ![key] = value]
      /\ used' = [used EXCEPT ![key] = ncalls + 1]
      /\ UNCHANGED <<parse_vars, buf_vars, name_vars, delta_vars, round_vars,
                     cache_size, returned>>

\* self[key] = value.  With cache_size >= 1 the list is not empty when
\* line 84 deletes its first element.
LruSetItem(key, value) ==
  LET Store(ndx) ==
        LET c1 == IF ndx = 0 THEN cache ELSE Del(cache, ndx)
            k1 == IF ndx = 0 THEN cache_keys ELSE Del(cache_keys, ndx)
            full == Len(c1) >= cache_size
            c2 == IF full THEN Del(c1, 1) ELSE c1
            k2 == IF full THEN Del(k1, 1) ELSE k1
        IN  /\ cache_keys' = Append(k2, key)
            /\ cache' = Append(c2, value)
  IN  /\ cache_size > 0
      /\ ncalls < MaxLruCalls
      /\ ncalls' = ncalls + 1
      /\ \E ndx \in {Index(cache_keys, key)} : Store(ndx)
      /\ stored' = [stored EXCEPT ![key] = value]
      /\ used' = [used EXCEPT ![key] = ncalls + 1]
      /\ UNCHANGED <<parse_vars, buf_vars, name_vars, delta_vars, round_vars,
                     cache_size, returned>>

LruNext ==
  \/ \E key \in LruKeys : LruGetItem(key)
  \/ \E key \in LruKeys, value \in LruValues : LruSetItem(key, value)

\* Any calls of __getitem__ and __setitem__ on one LRUCache
LruSpec == LruInit /\ [][LruNext]_vars

STARS == [i \in 1..15 |-> "*"]

\* Which branch of the if/elif chain takes the line l
Branch(l) ==
  IF DIFF_RE_match(l) THEN "diff"
  ELSE IF UNIFIED_1_RE_match(l) THEN "unified_header"
  ELSE IF CONTEXT_1_RE_match(l) THEN "context_header"
  ELSE IF BINARY_RE_match(l) THEN "binary"
  ELSE IF mode = "unified" /\ StartsWith(l, <<"@">>) THEN "unified_hunk"
  ELSE IF mode = "context" /\ StartsWith(l, STARS) THEN "context_hunk"
  ELSE IF scanning_git THEN "git"
  ELSE "skip"

\* The for statement hands the next line to the branch b
Loop(b) ==
  /\ pc = "loop"
  /\ ~AtEnd
  /\ Branch(cur.line) = b
  /\ line' = cur.line

Raise(e) == pc' = "error" /\ err' = e

\* change = <a new object with the fields c>
\* (k is the number of the diff header whose block is being read)
BindIn(c, k) ==
  /\ heap' = Append(heap, c)
  /\ change' = Len(heap) + 1
  /\ born' = Append(born, k)

Bind(c) == BindIn(c, nhdr)

\* The statements after the yield, clearing the Change in progress where
\* lines 527-529 make a new one
StartChange_Reuse(l, k) ==
  LET Start(name) ==
        IF name = NameError
        THEN /\ Raise("NameError")
             /\ UNCHANGED <<default_filename, change, born, heap>>
        ELSE /\ default_filename' = name
             /\ IF change = 0
                THEN BindIn(Change(None, None), k)
                ELSE /\ heap' = [heap EXCEPT ![change] = Change(None, None)]
                     /\ born' = [born EXCEPT ![change] = k]
                     /\ change' = change
             /\ pc' = "loop"
             /\ err' = err
  IN  /\ scanning_git' = (GIT_RE_end(l) > 0)
      /\ \E name \in {extract_filename(RStrip(l, {" ", "\t", "\r", "\n"}))} :
           Start(name)

\* Lines 527-529: the statements after the yield, for the k-th diff header l
StartChange(l, k) ==
  LET Start(name) ==
        IF name = NameError
        THEN /\ Raise("NameError")
             /\ UNCHANGED <<default_filename, change, born, heap>>
        ELSE /\ default_filename' = name
             /\ BindIn(Change(None, None), k)
             /\ pc' = "loop"
             /\ err' = err
  IN  /\ scanning_git' = (GIT_RE_end(l) > 0)
      /\ \E name \in {extract_filename(RStrip(l, {" ", "\t", "\r", "\n"}))} :
           Start(name)

\* A diff header step that reads one line ahead before it yields
DiffHeader_ReadAhead ==
  LET Ahead(r) ==
        /\ pos' = r.pos
        /\ buffered' = Push(r.buf, r.line)
  IN  /\ Loop("diff")
      /\ \E r \in {Readline(cur.buf, cur.pos)} : Ahead(r)
      /\ nhdr' = nhdr + 1
      /\ IF change # 0
         THEN /\ yielded' = Append(yielded, change)
              /\ pc' = "yielded"
              /\ UNCHANGED <<err, change, born, heap, default_filename,
                             scanning_git>>
         ELSE /\ StartChange(cur.line, nhdr + 1)
              /\ UNCHANGED yielded
      /\ UNCHANGED <<outside, input, mode, hunk, la, lb, hstart>>

\* A diff header line: the Change in progress, if any, is yielded and the
\* generator is suspended at the yield; otherwise the next Change is started.
DiffHeader ==
  /\ Loop("diff")
  /\ pos' = cur.pos
  /\ buffered' = cur.buf
  /\ nhdr' = nhdr + 1
  /\ IF change # 0
     THEN /\ yielded' = Append(yielded, change)
          /\ pc' = "yielded"
          /\ UNCHANGED <<err, change, born, heap, default_filename,
                         scanning_git>>
     ELSE /\ StartChange(cur.line, nhdr + 1)
          /\ UNCHANGED yielded
  /\ UNCHANGED <<outside, input, mode, hunk, la, lb, hstart>>

\* The consumer asks for the next Change: the generator resumes after the yield
DiffResume ==
  /\ pc = "yielded"
  /\ StartChange(line, nhdr)
  /\ UNCHANGED <<outside, input, pos, buffered, line, yielded, mode, hunk, la, lb,
                 hstart, nhdr>>

\* _handle_unified / _handle_context on the object c
handle_names(source, dest, c) == [c EXCEPT !.source = source, !.dest = dest]

\* A file header: a "---" line then a "+++" line (unified), or a "***" line
\* then a "---" line (context).  m is the mode the pair sets.
FileHeader(m) ==
  LET \* _handle_unified / _handle_context, with the names _find_name returns
      Handle(source, dest) ==
        IF source = NameError
        THEN Raise("NameError") /\ UNCHANGED <<heap, mode, scanning_git>>
        ELSE IF change = 0
        THEN Raise("AttributeError") /\ UNCHANGED <<heap, mode, scanning_git>>
        ELSE IF dest = NameError
        THEN /\ Raise("NameError")
             /\ heap' = [heap EXCEPT ![change].source = source]
             /\ UNCHANGED <<mode, scanning_git>>
        ELSE /\ heap' = [heap EXCEPT ![change] =
                           handle_names(source, dest, heap[change])]
             /\ mode' = m
             /\ scanning_git' = FALSE
             /\ UNCHANGED <<pc, err>>
      Second(first, r) ==
        /\ pos' = r.pos
        /\ IF ~(IF m = "unified" THEN UNIFIED_2_RE_match(r.line)
                ELSE CONTEXT_2_RE_match(r.line))
           THEN /\ buffered' = Push(r.buf, r.line)
                /\ UNCHANGED <<pc, err, heap, mode, scanning_git>>
           ELSE /\ buffered' = r.buf
                /\ \E source \in {find_name(Drop(first.line, 4),
                                            default_filename, TRUE)},
                      dest \in {find_name(Drop(r.line, 4),
                                          default_filename, TRUE)} :
                     Handle(source, dest)
      First(first) == \E r \in {Readline(first.buf, first.pos)} : Second(first, r)
  IN  /\ Loop(IF m = "unified" THEN "unified_header" ELSE "context_header")
      /\ \E first \in {cur} : First(first)
      /\ UNCHANGED <<outside, input, change, born, yielded, default_filename, hunk, la,
                     lb, hstart, nhdr>>

UnifiedHeader == FileHeader("unified")

ContextHeader == FileHeader("context")

\* A line for the git handlers: the first entry of the table that matches
GitHeader ==
  LET Result(r) ==
        /\ IF r.new THEN Bind(r.obj)
           ELSE /\ heap' = [heap EXCEPT ![change] = r.obj]
                /\ UNCHANGED <<change, born>>
        /\ UNCHANGED <<pc, err>>
      Call(h, g) ==
        IF h.arg = "any" /\ extract_name(g) = NameError
        THEN Raise("NameError") /\ UNCHANGED <<change, born, heap>>
        ELSE \E r \in {CallHandler(h.handler, g, heap[change],
                                    default_filename)} : Result(r)
      Matched(sline, first) ==
        \E g \in {GitMatch(sline, first).group} : Call(git_handlers[first], g)
      Try(sline, hs) ==
        IF hs = {} THEN UNCHANGED <<pc, err, change, born, heap>>
        ELSE \E first \in {CHOOSE i \in hs : \A j \in hs : i <= j} :
               Matched(sline, first)
      Line(sline) ==
        \E hs \in {{i \in 1..Len(git_handlers) : GitMatch(sline, i).ok}} :
          Try(sline, hs)
  IN  /\ Loop("git")
      /\ pos' = cur.pos
      /\ buffered' = cur.buf
      /\ \E sline \in {RStrip(cur.line, {" ", "\t", "\r", "\n"})} : Line(sline)
      /\ UNCHANGED <<outside, input, yielded, default_filename, scanning_git, mode,
                     hunk, la, lb, hstart, nhdr>>

\* A line no branch takes
SkipLine ==
  /\ Loop("skip")
  /\ pos' = cur.pos
  /\ buffered' = cur.buf
  /\ UNCHANGED <<outside, input, pc, err, change, born, heap, yielded, default_filename,
                 scanning_git, mode, hunk, la, lb, hstart, nhdr>>

\* An end of parse() without the final yield
ParseEnd_NoYield ==
  /\ pc = "loop"
  /\ AtEnd
  /\ pc' = "done"
  /\ UNCHANGED <<outside, input, pos, buffered, err, line, change, born, heap, yielded,
                 default_filename, scanning_git, mode, hunk, la, lb, hstart,
                 nhdr>>

\* The input is exhausted: the last Change, if any, is yielded
ParseEnd ==
  /\ pc = "loop"
  /\ AtEnd
  /\ IF change # 0
     THEN yielded' = Append(yielded, change) /\ pc' = "yield_last"
     ELSE yielded' = yielded /\ pc' = "done"
  /\ UNCHANGED <<outside, input, pos, buffered, err, line, change, born, heap,
                 default_filename, scanning_git, mode, hunk, la, lb,
                 hstart, nhdr>>

\* The consumer asks for more after the last Change: the generator returns
ParseReturn ==
  /\ pc = "yield_last"
  /\ pc' = "done"
  /\ UNCHANGED <<outside, input, pos, buffered, err, line, change, born, heap, yielded,
                 default_filename, scanning_git, mode, hunk, la, lb,
                 hstart, nhdr>>

\* ------------------------------------------------------------------------
\* _parse_unified
\* ------------------------------------------------------------------------

\* int(group) with the default 1 for a length that is not written
GroupInt(g) == IF g = None THEN 1 ELSE ParseInt(g, 10)

parse_unified_header(l) ==
  LET Of(m) ==
        IF ~m.ok THEN [sa |-> 0, la |-> 0, sb |-> 0, lb |-> 0]
        ELSE [sa |-> ParseInt(m.sa, 10), la |-> GroupInt(m.la),
              sb |-> ParseInt(m.sb, 10), lb |-> GroupInt(m.lb)]
  IN  Once(Of, UNIFIED_HUNK_RE_match(l))

parse_context_header(l) ==
  LET Of(m) ==
        IF ~m.ok THEN [s |-> 0, l |-> 0]
        ELSE [s |-> ParseInt(m.s, 10), l |-> GroupInt(m.l)]
  IN  Once(Of, CONTEXT_HUNK_RE_match(l))

\* x - 1 for a hunk counter.  A counter below zero is only ever decremented
\* and compared with zero, so how far below zero it is makes no difference:
\* the values below -NegFold are folded back to -1.
Dec(x) == IF x - 1 < -NegFold THEN -1 ELSE x - 1

\* A counter is below zero: `while la or lb` can no longer become false, and
\* the hunk, which is then never attached, is no longer recorded.
Diverged == la < 0 \/ lb < 0

\* Lines 331-341: the hunk header, and the Add / Delete detected here
UnifiedHunkStart ==
  LET Start(h, c) ==
        /\ IF h.sa = 0 /\ h.la = 0 /\ c.kind # "add"
           THEN Bind(Add(c.dest, NoMode))
           ELSE IF h.sb = 0 /\ h.lb = 0 /\ c.kind # "delete"
           THEN Bind(Delete(c.source, NoMode))
           ELSE UNCHANGED <<change, born, heap>>
        /\ hunk' = TextHunk(h.sa, h.la, h.sb, h.lb)
        /\ la' = h.la
        /\ lb' = h.lb
  IN  /\ Loop("unified_hunk")
      /\ pos' = cur.pos
      /\ buffered' = cur.buf
      /\ \E h \in {parse_unified_header(cur.line)} : Start(h, heap[change])
      /\ hstart' = cur.pos
      /\ pc' = "unified_body"
      /\ UNCHANGED <<outside, input, err, yielded, default_filename, scanning_git,
                     mode, nhdr>>

\* The entry of hunk.lines for the body line hline
BodyEntry(hline) ==
  IF hline = <<>> \/ hline \in {<<"\n">>, <<"\r", "\n">>}
  THEN <<" ", hline>>
  ELSE <<Head(hline), Tail(hline)>>

\* A turn of the loop that counts an old line on the new side as well
UnifiedBodyStep_BothSides ==
  LET Body(r, hl) ==
        /\ buffered' = r.buf
        /\ pos' = r.pos
        /\ hunk' = IF Diverged THEN hunk
                   ELSE [hunk EXCEPT !.lines = Append(@, hl)]
        /\ la' = IF hl[1] \in {" ", "-"} THEN Dec(la) ELSE la
        /\ lb' = IF hl[1] \in {" ", "+", "-"} THEN Dec(lb) ELSE lb
      Read(r) == \E hl \in {BodyEntry(r.line)} : Body(r, hl)
  IN  /\ pc = "unified_body"
      /\ la # 0 \/ lb # 0
      /\ \E r \in {Readline(buffered, pos)} : Read(r)
      /\ UNCHANGED <<outside, input, pc, err, line, change, born, heap, yielded,
                     default_filename, scanning_git, mode, hstart,
                     nhdr>>

\* Lines 342-356: one turn of `while la or lb`
UnifiedBodyStep ==
  LET Body(r, hl) ==
        /\ buffered' = r.buf
        /\ pos' = r.pos
        /\ hunk' = IF Diverged THEN hunk
                   ELSE [hunk EXCEPT !.lines = Append(@, hl)]
        /\ la' = IF hl[1] \in {" ", "-"} THEN Dec(la) ELSE la
        /\ lb' = IF hl[1] \in {" ", "+"} THEN Dec(lb) ELSE lb
      Read(r) == \E hl \in {BodyEntry(r.line)} : Body(r, hl)
  IN  /\ pc = "unified_body"
      /\ la # 0 \/ lb # 0
      /\ \E r \in {Readline(buffered, pos)} : Read(r)
      /\ UNCHANGED <<outside, input, pc, err, line, change, born, heap, yielded,
                     default_filename, scanning_git, mode, hstart,
                     nhdr>>

\* UnifiedFinish taking the line after the body for a "\ No newline" marker
\* whatever it is
UnifiedFinish_AlwaysMarker ==
  LET Attach(h) ==
        /\ hunk' = h
        /\ heap' = [heap EXCEPT ![change].hunks = Append(@, h)]
        /\ pc' = "loop"
        /\ err' = err
      Read(r) ==
        /\ pos' = r.pos
        /\ buffered' = r.buf
        /\ IF hunk.lines = <<>>
           THEN Raise("IndexError") /\ UNCHANGED <<heap, hunk>>
           ELSE Attach(fix_final_newline(hunk))
  IN  /\ pc = "unified_body"
      /\ la = 0 /\ lb = 0
      /\ \E r \in {Readline(buffered, pos)} : Read(r)
      /\ UNCHANGED <<outside, input, line, change, born, yielded, default_filename,
                     scanning_git, mode, la, lb, hstart, nhdr>>

\* Lines 358-367: the loop has ended; the "\ No newline" check, and the hunk
\* is attached
UnifiedFinish ==
  LET Attach(h) ==
        /\ hunk' = h
        /\ heap' = [heap EXCEPT ![change].hunks = Append(@, h)]
        /\ pc' = "loop"
        /\ err' = err
      Read(r) ==
        /\ pos' = r.pos
        /\ IF ~StartsWith(r.line, <<"\\", " ">>)
           THEN buffered' = Push(r.buf, r.line) /\ Attach(hunk)
           ELSE /\ buffered' = r.buf
                /\ IF hunk.lines = <<>>
                   THEN Raise("IndexError") /\ UNCHANGED <<heap, hunk>>
                   ELSE Attach(fix_final_newline(hunk))
  IN  /\ pc = "unified_body"
      /\ la = 0 /\ lb = 0
      /\ \E r \in {Readline(buffered, pos)} : Read(r)
      /\ UNCHANGED <<outside, input, line, change, born, yielded, default_filename,
                     scanning_git, mode, la, lb, hstart, nhdr>>

\* ------------------------------------------------------------------------
\* _parse_context
\* ------------------------------------------------------------------------

\* parse() calls _parse_context with the row of asterisks, which
\* _CONTEXT_HUNK_RE does not match: both headers read as 0, 0 and neither
\* `while la` nor `while lb` is entered.

\* Lines 373-381
ContextHunkStart ==
  LET Start(h, c) ==
        /\ IF h.s = 0 /\ h.l = 0 /\ c.kind # "add"
           THEN Bind(Add(c.dest, NoMode))
           ELSE UNCHANGED <<change, born, heap>>
        /\ hunk' = TextHunk(h.s, h.l, 0, 0)
        /\ la' = h.l
  IN  /\ Loop("context_hunk")
      /\ pos' = cur.pos
      /\ buffered' = cur.buf
      /\ \E h \in {parse_context_header(cur.line)} : Start(h, heap[change])
      /\ pc' = "context_old"
      /\ UNCHANGED <<outside, input, err, yielded, default_filename, scanning_git,
                     mode, lb, hstart, nhdr>>

\* The "\ No newline" check that follows each half of a context hunk
\* (lines 396-401 and 433-438): the hunk, buffer and position left, and
\* whether fix_final_newline raised IndexError
NoNewlineCheck ==
  LET Of(r) ==
        IF ~StartsWith(r.line, <<"\\", " ">>)
        THEN [raised |-> FALSE, hunk |-> hunk, buf |-> Push(r.buf, r.line),
              pos |-> r.pos]
        ELSE IF hunk.lines = <<>>
        THEN [raised |-> TRUE, hunk |-> hunk, buf |-> r.buf, pos |-> r.pos]
        ELSE [raised |-> FALSE, hunk |-> fix_final_newline(hunk),
              buf |-> r.buf, pos |-> r.pos]
  IN  Once(Of, Readline(buffered, pos))

\* Lines 396-409, when `while la` is over
ContextMiddle ==
  LET Second(h, c) ==
        /\ IF h.s = 0 /\ h.l = 0 /\ c.kind # "delete"
           THEN Bind(Delete(c.source, NoMode))
           ELSE UNCHANGED <<change, born, heap>>
        /\ lb' = h.l
        /\ pc' = "context_new"
        /\ err' = err
      Checked(k) ==
        /\ buffered' = k.buf
        /\ pos' = k.pos
        /\ hunk' = k.hunk
        /\ IF k.raised
           THEN Raise("IndexError") /\ UNCHANGED <<change, born, heap, lb>>
           ELSE \E h \in {parse_context_header(line)} : Second(h, heap[change])
  IN  /\ pc = "context_old"
      /\ la = 0
      /\ \E k \in {NoNewlineCheck} : Checked(k)
      /\ UNCHANGED <<outside, input, line, yielded, default_filename, scanning_git,
                     mode, la, hstart, nhdr>>

\* Lines 433-442, when `while lb` is over
ContextFinish ==
  LET Checked(k) ==
        /\ buffered' = k.buf
        /\ pos' = k.pos
        /\ hunk' = k.hunk
        /\ IF k.raised
           THEN Raise("IndexError") /\ UNCHANGED heap
           ELSE /\ heap' = [heap EXCEPT ![change].hunks = Append(@, k.hunk)]
                /\ pc' = "loop"
                /\ err' = err
  IN  /\ pc = "context_new"
      /\ lb = 0
      /\ \E k \in {NoNewlineCheck} : Checked(k)
      /\ UNCHANGED <<outside, input, line, change, born, yielded, default_filename,
                     scanning_git, mode, la, lb, hstart, nhdr>>

\* ------------------------------------------------------------------------
\* _parse_binary and _parse_binary_hunk
\* ------------------------------------------------------------------------

UPPERCASE ==
  <<"A", "B", "C", "D", "E", "F", "G", "H", "I", "J", "K", "L", "M",
    "N", "O", "P", "Q", "R", "S", "T", "U", "V", "W", "X", "Y", "Z">>

LOWERCASE ==
  <<"a", "b", "c", "d", "e", "f", "g", "h", "i", "j", "k", "l", "m",
    "n", "o", "p", "q", "r", "s", "t", "u", "v", "w", "x", "y", "z">>

\* The chunk length the first character of a data line stands for, 0 when it
\* stands for none
ChunkLen(ch) ==
  IF ch \in Upper THEN CHOOSE i \in 1..26 : UPPERCASE[i] = ch
  ELSE IF ch \in Lower THEN 26 + CHOOSE i \in 1..26 : LOWERCASE[i] = ch
  ELSE 0

\* The BadBinaryHunk exceptions of lines 469, 477, 482, 489 and 502, told
\* apart by their messages
BAD_LINE_LENGTH == "BadBinaryHunk: corrupt binary patch - bad line length"

BAD_LENGTH_BYTE == "BadBinaryHunk: corrupt binary patch - bad length byte"

LENGTH_MISMATCH == "BadBinaryHunk: corrupt binary patch - length mismatch"

UNABLE_TO_DECOMPRESS == "BadBinaryHunk: corrupt binary patch - unable to decompress"

UNRECOGNISED == "BadBinaryHunk: unrecognised binary patch"

\* class BadBinaryHunk
BadBinaryHunk ==
  {BAD_LINE_LENGTH, BAD_LENGTH_BYTE, LENGTH_MISMATCH, UNABLE_TO_DECOMPRESS,
   UNRECOGNISED}

\* MethodLine without the push of lines 451 and 456: a line that is no
\* method line is dropped
MethodLine_Drop(b, p) ==
  LET Of(r, m) ==
        IF m.ok /\ m.method \in {<<"l", "i", "t", "e", "r", "a", "l">>,
                                 <<"d", "e", "l", "t", "a">>}
        THEN [ok |-> TRUE, method |-> m.method, len |-> ParseInt(m.len, 10),
              buf |-> r.buf, pos |-> r.pos]
        ELSE [ok |-> FALSE, method |-> None, len |-> 0,
              buf |-> r.buf, pos |-> r.pos]
      Read(r) == Once(LAMBDA m : Of(r, m), METHOD_LINE_RE_match(r.line))
  IN  Once(Read, Readline(b, p))

\* Lines 448-460: the method line of a sub-block read from buffer b at
\* position p
MethodLine(b, p) ==
  LET Of(r, m) ==
        IF m.ok /\ m.method \in {<<"l", "i", "t", "e", "r", "a", "l">>,
                                 <<"d", "e", "l", "t", "a">>}
        THEN [ok |-> TRUE, method |-> m.method, len |-> ParseInt(m.len, 10),
              buf |-> r.buf, pos |-> r.pos]
        ELSE [ok |-> FALSE, method |-> None, len |-> 0,
              buf |-> Push(r.buf, r.line), pos |-> r.pos]
      Read(r) == Once(LAMBDA m : Of(r, m), METHOD_LINE_RE_match(r.line))
  IN  Once(Read, Readline(b, p))

\* BinaryStart handing the Change out before the error of line 502 is raised
BinaryStart_YieldThenRaise ==
  LET Forward(c, m) ==
        /\ heap' = [heap EXCEPT
                      ![change].source =
                         IF c.source = None THEN default_filename ELSE @,
                      ![change].dest =
                         IF c.dest = None THEN default_filename ELSE @]
        /\ buffered' = m.buf
        /\ pos' = m.pos
        /\ IF m.ok
           THEN /\ hunk' = BinaryHunk(m.len, m.method, <<>>, FALSE)
                /\ pc' = "binary_data"
                /\ err' = err
                /\ yielded' = yielded
           ELSE /\ Raise(UNRECOGNISED)
                /\ hunk' = hunk
                /\ yielded' = Append(yielded, change)
  IN  /\ Loop("binary")
      /\ IF change = 0
         THEN /\ Raise("AttributeError")
              /\ pos' = cur.pos
              /\ buffered' = cur.buf
              /\ UNCHANGED <<heap, hunk, yielded>>
         ELSE \E m \in {MethodLine(cur.buf, cur.pos)} : Forward(heap[change], m)
      /\ UNCHANGED <<outside, input, change, born, default_filename,
                     scanning_git, mode, la, lb, hstart, nhdr>>

\* Lines 495-502 and 448-460: the marker line, and the method line of the
\* forward hunk
BinaryStart ==
  LET Forward(c, m) ==
        /\ heap' = [heap EXCEPT
                      ![change].source =
                         IF c.source = None THEN default_filename ELSE @,
                      ![change].dest =
                         IF c.dest = None THEN default_filename ELSE @]
        /\ buffered' = m.buf
        /\ pos' = m.pos
        /\ IF m.ok
           THEN /\ hunk' = BinaryHunk(m.len, m.method, <<>>, FALSE)
                /\ pc' = "binary_data"
                /\ err' = err
           ELSE Raise(UNRECOGNISED) /\ hunk' = hunk
  IN  /\ Loop("binary")
      /\ IF change = 0
         THEN /\ Raise("AttributeError")
              /\ pos' = cur.pos
              /\ buffered' = cur.buf
              /\ UNCHANGED <<heap, hunk>>
         ELSE \E m \in {MethodLine(cur.buf, cur.pos)} : Forward(heap[change], m)
      /\ UNCHANGED <<outside, input, change, born, yielded, default_filename,
                     scanning_git, mode, la, lb, hstart, nhdr>>

\* BinaryDataStep without the test of line 481: the decoded bytes are taken
\* whatever their number
BinaryDataStep_AcceptShort ==
  LET Chunk(blen, new_data) ==
        /\ hunk' = [hunk EXCEPT !.data = @ \o new_data]
        /\ UNCHANGED <<pc, err>>
      Data(r, l) ==
        /\ l # <<>>
        /\ buffered' = r.buf
        /\ pos' = r.pos
        /\ IF Len(l) < 6 \/ (Len(l) - 1) % 5 # 0
           THEN Raise(BAD_LINE_LENGTH) /\ hunk' = hunk
           ELSE IF ChunkLen(l[1]) = 0
           THEN Raise(BAD_LENGTH_BYTE) /\ hunk' = hunk
           ELSE IF ~B85Valid(Drop(l, 1))
           THEN Raise("base85 error") /\ hunk' = hunk
           ELSE \E new_data \in {base85_decode(Drop(l, 1))} :
                  Chunk(ChunkLen(l[1]), new_data)
      Read(r) == \E l \in {Strip(r.line, WS)} : Data(r, l)
  IN  /\ pc = "binary_data"
      /\ \E r \in {Readline(buffered, pos)} : Read(r)
      /\ UNCHANGED <<outside, input, line, change, born, heap, yielded,
                     default_filename, scanning_git, mode, la, lb,
                     hstart, nhdr>>

\* Lines 461-484: a data line that is not blank
BinaryDataStep ==
  LET Chunk(blen, new_data) ==
        IF Len(new_data) < blen
        THEN Raise(LENGTH_MISMATCH) /\ hunk' = hunk
        ELSE /\ hunk' = [hunk EXCEPT !.data = @ \o Take(new_data, blen)]
             /\ UNCHANGED <<pc, err>>
      Data(r, l) ==
        /\ l # <<>>
        /\ buffered' = r.buf
        /\ pos' = r.pos
        /\ IF Len(l) < 6 \/ (Len(l) - 1) % 5 # 0
           THEN Raise(BAD_LINE_LENGTH) /\ hunk' = hunk
           ELSE IF ChunkLen(l[1]) = 0
           THEN Raise(BAD_LENGTH_BYTE) /\ hunk' = hunk
           ELSE IF ~B85Valid(Drop(l, 1))
           THEN Raise("base85 error") /\ hunk' = hunk
           ELSE \E new_data \in {base85_decode(Drop(l, 1))} :
                  Chunk(ChunkLen(l[1]), new_data)
      Read(r) == \E l \in {Strip(r.line, WS)} : Data(r, l)
  IN  /\ pc = "binary_data"
      /\ \E r \in {Readline(buffered, pos)} : Read(r)
      /\ UNCHANGED <<outside, input, line, change, born, heap, yielded,
                     default_filename, scanning_git, mode, la, lb,
                     hstart, nhdr>>

\* BinaryHunkEnd without the assignment of line 509
BinaryHunkEnd_NotMarked ==
  LET Last(done, b, p) ==
        /\ heap' = [heap EXCEPT ![change].hunks = Append(@, done)]
        /\ hunk' = done
        /\ buffered' = b
        /\ pos' = p
        /\ pc' = "loop"
        /\ err' = err
      Reverse(done, m) ==
        IF m.ok
        THEN /\ heap' = [heap EXCEPT ![change].hunks = Append(@, done)]
             /\ hunk' = BinaryHunk(m.len, m.method, <<>>, TRUE)
             /\ buffered' = m.buf
             /\ pos' = m.pos
             /\ UNCHANGED <<pc, err>>
        ELSE Last(done, m.buf, m.pos)
      Inflate(r, data) ==
        IF data = None
        THEN /\ Raise(UNABLE_TO_DECOMPRESS)
             /\ buffered' = r.buf
             /\ pos' = r.pos
             /\ UNCHANGED <<heap, hunk>>
        ELSE IF hunk.reverse THEN Last([hunk EXCEPT !.data = data], r.buf, r.pos)
        ELSE \E m \in {MethodLine(r.buf, r.pos)} :
               Reverse([hunk EXCEPT !.data = data], m)
      Read(r) ==
        /\ Strip(r.line, WS) = <<>>
        /\ \E data \in {zlib_decompress(hunk.data)} : Inflate(r, data)
  IN  /\ pc = "binary_data"
      /\ \E r \in {Readline(buffered, pos)} : Read(r)
      /\ UNCHANGED <<outside, input, line, change, born, yielded, default_filename,
                     scanning_git, mode, la, lb, hstart, nhdr>>

\* Lines 465-466 and 486-491: a blank line (or the end of the input) ends the
\* sub-block and its data are inflated.  Lines 503-510: after the forward
\* hunk the method line of a reverse hunk is looked for; without one, and
\* after the reverse hunk, the Change is marked binary.
BinaryHunkEnd ==
  LET Last(done, b, p) ==
        /\ heap' = [heap EXCEPT ![change].hunks = Append(@, done),
                                ![change].binary = TRUE]
        /\ hunk' = done
        /\ buffered' = b
        /\ pos' = p
        /\ pc' = "loop"
        /\ err' = err
      Reverse(done, m) ==
        IF m.ok
        THEN /\ heap' = [heap EXCEPT ![change].hunks = Append(@, done)]
             /\ hunk' = BinaryHunk(m.len, m.method, <<>>, TRUE)
             /\ buffered' = m.buf
             /\ pos' = m.pos
             /\ UNCHANGED <<pc, err>>
        ELSE Last(done, m.buf, m.pos)
      Inflate(r, data) ==
        IF data = None
        THEN /\ Raise(UNABLE_TO_DECOMPRESS)
             /\ buffered' = r.buf
             /\ pos' = r.pos
             /\ UNCHANGED <<heap, hunk>>
        ELSE IF hunk.reverse THEN Last([hunk EXCEPT !.data = data], r.buf, r.pos)
        ELSE \E m \in {MethodLine(r.buf, r.pos)} :
               Reverse([hunk EXCEPT !.data = data], m)
      Read(r) ==
        /\ Strip(r.line, WS) = <<>>
        /\ \E data \in {zlib_decompress(hunk.data)} : Inflate(r, data)
  IN  /\ pc = "binary_data"
      /\ \E r \in {Readline(buffered, pos)} : Read(r)
      /\ UNCHANGED <<outside, input, line, change, born, yielded, default_filename,
                     scanning_git, mode, la, lb, hstart, nhdr>>

\* ------------------------------------------------------------------------
\* Specification
\* ------------------------------------------------------------------------

Next ==
  \/ DiffHeader
  \/ DiffResume
  \/ UnifiedHeader
  \/ ContextHeader
  \/ BinaryStart
  \/ BinaryDataStep
  \/ BinaryHunkEnd
  \/ UnifiedHunkStart
  \/ UnifiedBodyStep
  \/ UnifiedFinish
  \/ ContextHunkStart
  \/ ContextMiddle
  \/ ContextFinish
  \/ GitHeader
  \/ SkipLine
  \/ ParseEnd
  \/ ParseReturn

Spec == Init /\ [][Next]_vars

\* The generator is always run on: the consumer asks for every Change
FairSpec == FairInit /\ [][Next]_vars /\ WF_vars(Next)

\* ------------------------------------------------------------------------
\* str() of a Change and of a TextHunk, and parse() called on that text
\* ------------------------------------------------------------------------

\* '%d' % n for n >= 0
RECURSIVE IntToStr(_)
IntToStr(n) ==
  LET d == <<"0", "1", "2", "3", "4", "5", "6", "7", "8", "9">>[(n % 10) + 1]
  IN  IF n < 10 THEN <<d>> ELSE IntToStr(n \div 10) \o <<d>>

\* '%s' % x for a name or None
StrOf(x) == IF x = None THEN <<"N", "o", "n", "e">> ELSE x

DEV_NULL == <<"/", "d", "e", "v", "/", "n", "u", "l", "l">>

\* '\n'.join(q)
RECURSIVE JoinLines(_)
JoinLines(q) ==
  IF q = <<>> THEN <<>>
  ELSE IF Len(q) = 1 THEN q[1]
  ELSE q[1] \o <<"\n">> \o JoinLines(Tail(q))

\* _unified_headers() of Change, Delete and Add
unified_headers(c) ==
  LET src == IF c.kind = "add" THEN DEV_NULL
             ELSE IF c.kind = "delete" THEN StrOf(c.source)
             ELSE IF c.source \in {None, <<>>} THEN DEV_NULL
             ELSE c.source
      dest == IF c.kind = "delete" THEN DEV_NULL
              ELSE IF c.kind = "add" THEN StrOf(c.dest)
              ELSE IF c.dest \in {None, <<>>} THEN DEV_NULL
              ELSE c.dest
  IN  <<"-", "-", "-", " ">> \o src \o <<"\t", "\n", "+", "+", "+", " ">>
        \o dest \o <<"\t">>

\* TextHunk.__str__
TextHunk_str(h) ==
  JoinLines(<<<<"@", "@", " ", "-">> \o IntToStr(h.start_a) \o <<",">>
                \o IntToStr(h.len_a) \o <<" ", "+">> \o IntToStr(h.start_b)
                \o <<",">> \o IntToStr(h.len_b) \o <<" ", "@", "@">>>>
            \o [i \in 1..Len(h.lines) |->
                  <<h.lines[i][1]>> \o RStrip(h.lines[i][2], {"\r", "\n"})])

\* Change.__str__ of a Change whose hunks are TextHunks
Change_str(c) ==
  JoinLines(<<unified_headers(c)>> \o [i \in 1..Len(c.hunks) |-> TextHunk_str(c.hunks[i])])

\* The lines a StringIO over the text t hands out
RECURSIVE SplitLines(_)
SplitLines(t) ==
  IF t = <<>> THEN <<>>
  ELSE IF \A i \in 1..Len(t) : t[i] # "\n" THEN <<t>>
  ELSE LET nl == CHOOSE i \in 1..Len(t) :
                   t[i] = "\n" /\ \A j \in 1..(i - 1) : t[j] # "\n"
       IN  <<Take(t, nl)>> \o SplitLines(Drop(t, nl))

\* A name that str() can write: a string of the model's characters, or None
Writable(x) == x \notin {NameError, OtherChar}

\* parse(str(c)) for a Change c that parse() yielded and whose hunks are
\* TextHunks: parse has returned, the text of c is made by Change.__str__ and
\* parse is called on it
Render ==
  /\ pc = "done"
  /\ rendered = <<>>
  /\ \E k \in 1..Len(yielded) :
       \E c \in {heap[yielded[k]]} :
         /\ c.hunks # <<>>
         /\ \A i \in 1..Len(c.hunks) : c.hunks[i].type = "text"
         /\ Writable(c.source) /\ Writable(c.dest)
         /\ rendered' = <<c>>
         /\ input' = SplitLines(Change_str(c))
  /\ pos' = 0
  /\ buffered' = <<>>
  /\ pc' = "loop"
  /\ err' = ""
  /\ line' = None
  /\ change' = 0
  /\ heap' = <<>>
  /\ yielded' = <<>>
  /\ default_filename' = None
  /\ scanning_git' = FALSE
  /\ mode' = "none"
  /\ hunk' = TextHunk(0, 0, 0, 0)
  /\ la' = 0
  /\ lb' = 0
  /\ born' = <<>>
  /\ hstart' = 0
  /\ nhdr' = 0
  /\ UNCHANGED <<buf_vars, name_vars, delta_vars, lru_vars>>

RoundNext == Next \/ Render

\* parse(), and parse() again on the text of one of the Changes it yielded
RoundSpec == FairInit /\ [][RoundNext]_vars

\* Sanity of the translation
TypeOK ==
  /\ Len(buffered) <= 1
  /\ pos \in 0..Len(input)
  /\ change \in 0..Len(heap)
  /\ mode # "none" => change # 0
  /\ scanning_git => change # 0
  /\ pc \in {"context_old", "context_new"} => la = 0 /\ lb = 0
  /\ \A i \in 1..Len(yielded) : yielded[i] \in 1..Len(heap)
  /\ Len(born) = Len(heap)

\* ------------------------------------------------------------------------
\* Properties
\* ------------------------------------------------------------------------

\* The lines parse() has not been handed yet: a pushed-back line, then the
\* rest of the input (the '' that readline returns at the end is no line)
Unread ==
  (IF buffered # <<>> /\ Head(buffered) # <<>> THEN buffered ELSE <<>>)
    \o SubSeq(input, pos + 1, Len(input))

\* The number of entries of a hunk's lines whose marker is in M
CountOf(lines, M) == Cardinality({i \in 1..Len(lines) : lines[i][1] \in M})

\* _parse_unified has just returned: the hunk of the header `line` is attached
HunkAttached == pc = "loop" /\ mode = "unified" /\ StartsWith(line, <<"@">>)

\* The k input lines after the hunk header at hstart are a well-formed body
\* for the lengths na and nb: every line is an old, new or context line or a
\* "\ No newline" marker, the old side counts na lines and the new side nb,
\* and the body ends with a counted line.
WellFormedBody(k, na, nb) ==
  /\ hstart + k <= Len(input)
  /\ \A j \in 1..k : input[hstart + j][1] \in {" ", "-", "+", "\\"}
  /\ Cardinality({j \in 1..k : input[hstart + j][1] \in {" ", "-"}}) = na
  /\ Cardinality({j \in 1..k : input[hstart + j][1] \in {" ", "+"}}) = nb
  /\ k > 0 => input[hstart + k][1] # "\\"

\* The number of lines the hunk takes after a body of k lines: the body, and
\* the "\ No newline" marker that may follow it
HunkExtent(k) ==
  IF hstart + k + 1 <= Len(input) /\ StartsWith(input[hstart + k + 1], <<"\\", " ">>)
  THEN k + 1
  ELSE k

\* C1: when the unified hunk parser has attached the hunk of a well-formed
\* unified hunk, the hunk's ' ' and '-' entries number len_a, its ' ' and '+'
\* entries number len_b, these are the lengths the header declares, the hunk
\* holds the body's lines and nothing else, and every line after the hunk is
\* still to be read.
C1_WellFormedHunkCounts ==
  HunkAttached /\ UNIFIED_HUNK_RE_match(line).ok =>
    \A k \in 0..(Len(input) - hstart) :
      WellFormedBody(k, parse_unified_header(line).la,
                     parse_unified_header(line).lb) =>
        /\ heap[change].hunks # <<>>
        /\ heap[change].hunks[Len(heap[change].hunks)] = hunk
        /\ hunk.len_a = parse_unified_header(line).la
        /\ hunk.len_b = parse_unified_header(line).lb
        /\ CountOf(hunk.lines, {" ", "-"}) = hunk.len_a
        /\ CountOf(hunk.lines, {" ", "+"}) = hunk.len_b
        /\ Len(hunk.lines) = k
        /\ Unread = SubSeq(input, hstart + HunkExtent(k) + 1, Len(input))

\* A hunk of one old and one new line, with more input after it, is attached
C1_Witness ==
  /\ HunkAttached
  /\ UNIFIED_HUNK_RE_match(line).ok
  /\ WellFormedBody(2, 1, 1)
  /\ parse_unified_header(line).la = 1
  /\ parse_unified_header(line).lb = 1
  /\ Len(input) > hstart + 2

\* C2: parse yields one Change per diff header the driver has read, the k-th
\* Change yielded being one created in the block of the k-th header: the
\* Change of the last header read is not yet yielded while the generator is
\* in its loop, and is yielded once the input has ended; no Change is yielded
\* twice.
C2_OneChangePerHeader ==
  /\ Len(yielded) = IF pc \in {"yield_last", "done"} THEN nhdr
                    ELSE IF nhdr = 0 THEN 0
                    ELSE nhdr - 1
  /\ \A k \in 1..Len(yielded) : born[yielded[k]] = k
  /\ \A j, k \in 1..Len(yielded) : j # k => yielded[j] # yielded[k]
  /\ pc \in {"yield_last", "done"} => AtEnd

\* Three diff headers were read and the input has ended: three Changes
C2_Witness == pc = "done" /\ nhdr = 3 /\ Len(yielded) = 3

\* C3: as long as no diff header has been read, parse has raised no error
\* and holds no Change: the lines before the first header are skipped.
C3_LinesBeforeFirstHeaderSkipped ==
  nhdr = 0 => pc # "error" /\ change = 0 /\ yielded = <<>>

\* A step rebinds `change` to another object within the same block: the
\* Change in progress is upgraded to another variant
Upgraded == change # 0 /\ change' # change /\ born'[change'] = born[change]

\* C4: when the Change in progress is upgraded, the hunks attached before the
\* upgrade are still its hunks, in the same order, after it.
C4_UpgradeKeepsHunks ==
  [][Upgraded =>
       /\ Len(heap'[change'].hunks) >= Len(heap[change].hunks)
       /\ \A i \in 1..Len(heap[change].hunks) :
            heap'[change'].hunks[i] = heap[change].hunks[i]]_vars

\* C5: the git block with a similarity index of 90, then rename from foo,
\* then rename to bar yields a Rename from foo to bar whose similarity is 90.
C5_SimilaritySurvivesRename ==
  input = <<L_DIFF_GIT, L_SIMILARITY, L_RENAME_FROM, L_RENAME_TO>> /\ pc = "done" =>
    /\ Len(yielded) = 1
    /\ heap[yielded[1]].kind = "rename"
    /\ heap[yielded[1]].source = <<"f", "o", "o">>
    /\ heap[yielded[1]].dest = <<"b", "a", "r">>
    /\ "similarity" \in DOMAIN heap[yielded[1]].attrs
    /\ heap[yielded[1]].attrs["similarity"] = 90

\* C6: the git block  diff --git a/foo b/foo / deleted file mode 100644 /
\* --- a/foo / +++ /dev/null  yields one Change, a Delete whose old_mode is
\* 0o100644 (33188) and whose source is foo.
C6_DeletedFileBlock ==
  input = <<L_DIFF_GIT, L_DELETED, L_MINUS_A, L_PLUS_NULL>> /\ pc = "done" =>
    /\ Len(yielded) = 1
    /\ heap[yielded[1]].kind = "delete"
    /\ "old_mode" \in DOMAIN heap[yielded[1]].attrs
    /\ heap[yielded[1]].attrs["old_mode"] = 33188
    /\ heap[yielded[1]].source = <<"f", "o", "o">>

\* The block has been parsed to its end
C6_Witness ==
  /\ input = <<L_DIFF_GIT, L_DELETED, L_MINUS_A, L_PLUS_NULL>>
  /\ pc = "done"
  /\ yielded # <<>>

\* C7: every Change yielded as an Add has no source and every Change yielded
\* as a Delete has no dest.
C7_AddHasNoSourceDeleteNoDest ==
  \A k \in 1..Len(yielded) :
    /\ heap[yielded[k]].kind = "add" => heap[yielded[k]].source = None
    /\ heap[yielded[k]].kind = "delete" => heap[yielded[k]].dest = None

\* C8: once a Change has been yielded it is never modified, and `change` is
\* bound to another object whenever the parser goes on reading lines.
C8_YieldedNeverModified ==
  /\ [](pc \in {"loop", "unified_body", "binary_data", "context_old",
                "context_new"} =>
          \A k \in 1..Len(yielded) : yielded[k] # change)
  /\ [][\A k \in 1..Len(yielded) : heap'[yielded[k]] = heap[yielded[k]]]_vars

\* After a Change was yielded, a hunk has been attached to the next one
C8_Witness ==
  /\ yielded # <<>>
  /\ pc = "loop"
  /\ heap[change].hunks # <<>>
  /\ heap[yielded[1]].hunks # <<>>

\* C9: when parse is suspended at the yield of line 525, the last line taken
\* from the input is the diff header just read and nothing is buffered: no
\* line beyond the header has been consumed.
C9_YieldBeforeReadingOn ==
  pc = "yielded" =>
    /\ buffered = <<>>
    /\ pos >= 1
    /\ input[pos] = line
    /\ DIFF_RE_match(line)
    /\ Len(yielded) = nhdr - 1

\* A Change is yielded while lines of the input are still unread
C9_Witness == pc = "yielded" /\ pos < Len(input) /\ Len(yielded) = 1

\* C10: parse terminates: it eventually has returned or raised.
C10_ParseTerminates == <>(pc \in {"done", "error"})

\* C11: on a Linebuffer, the readline that follows a push returns the line
\* just pushed, and two lines pushed one after the other come back last
\* pushed first.
C11_PushedLinesComeBackLastFirst ==
  /\ \A i \in 1..(Len(calls) - 1) :
       calls[i].op = "push" /\ calls[i + 1].op = "readline" =>
         calls[i + 1].v = calls[i].v
  /\ \A i \in 1..(Len(calls) - 3) :
       /\ calls[i].op = "push" /\ calls[i + 1].op = "push"
       /\ calls[i + 2].op = "readline" /\ calls[i + 3].op = "readline"
       => calls[i + 2].v = calls[i + 1].v /\ calls[i + 3].v = calls[i].v

\* C12: for an unquoted header diff --git a/<path1> b/<path2>,
\* extract_filename returns <path1> exactly when the two paths are identical,
\* and returns no filename when they differ.
C12_NameIffPathsIdentical ==
  \A path1 \in NamePaths \cup {DIR_FILE_TXT}, path2 \in NamePaths \cup {DIR_FILE_TXT} :
    header = UnquotedHeader(path1, path2) /\ filename # NotCalled
      => /\ (filename = path1) <=> (path1 = path2)
         /\ path1 # path2 => filename = None

\* C13: extract_filename applied to diff --git a/"f oo" b/"f oo" returns the
\* filename f oo.
C13_QuotedNameWithSpace ==
  header = H_QUOTED_NAME /\ filename # NotCalled => filename = F_OO

\* A stripped data line of the right shape whose length character declares
\* more bytes than the rest of the line decodes to
ShortData(l) ==
  /\ Len(l) >= 6
  /\ (Len(l) - 1) % 5 = 0
  /\ ChunkLen(l[1]) > 0
  /\ B85Valid(Drop(l, 1))
  /\ Len(base85_decode(Drop(l, 1))) < ChunkLen(l[1])

\* C14: in a binary sub-block, a data line whose length character declares n
\* bytes and whose remainder decodes to fewer than n bytes makes parsing fail
\* with BadBinaryHunk: the data gathered so far are left as they were and no
\* hunk is added to any Change.
C14_ShortDataRaises ==
  [][pc = "binary_data" /\ ShortData(Strip(Readline(buffered, pos).line, WS))
       => /\ pc' = "error"
          /\ err' \in BadBinaryHunk
          /\ hunk' = hunk
          /\ heap' = heap
          /\ yielded' = yielded]_vars

C14_Witness ==
  /\ pc = "error"
  /\ err = LENGTH_MISMATCH
  /\ pos > 0
  /\ ShortData(Strip(input[pos], WS))
  /\ heap[change].hunks = <<>>

\* C15: when the line after a GIT binary patch marker is not a method line
\* (literal or delta with a length), the end of the input included, parsing
\* raises BadBinaryHunk('unrecognised binary patch') and yields nothing at that
\* step; parsing has then ended, so the Change of the block is never yielded.
C15_NoMethodLineRaisesUnrecognised ==
  [][(pc = "loop" /\ ~AtEnd /\ Branch(cur.line) = "binary"
        /\ ~MethodLine(cur.buf, cur.pos).ok)
       => /\ pc' = "error"
          /\ err' = UNRECOGNISED
          /\ yielded' = yielded]_vars

\* parse was ended by the exception of a malformed binary hunk
BadHunkMet == pc = "error" /\ err \in BadBinaryHunk \cup {"base85 error"}

\* C16: when a malformed binary hunk has made parse raise, the Change of
\* every earlier diff block has been yielded, in the order of the blocks, the
\* Change of the block that holds the bad hunk has not, and parse takes no
\* further step: nothing is yielded after the error.
C16_BadHunkEndsParse ==
  /\ [](BadHunkMet =>
          /\ change # 0
          /\ born[change] = nhdr
          /\ Len(yielded) = nhdr - 1
          /\ \A k \in 1..Len(yielded) : born[yielded[k]] = k /\ yielded[k] # change)
  /\ [][~BadHunkMet]_vars

\* The second diff block holds the bad hunk and the Change of the first has
\* been yielded
C16_Witness == BadHunkMet /\ nhdr = 2 /\ Len(yielded) = 1

\* The bytes an instruction writes: the slice of the pre-image of a copy, the
\* bytes of a literal
Written(t, pre) ==
  IF t[2] = "source" THEN SubSeq(pre, t[3] + 1, t[3] + t[4]) ELSE t[3]

\* The post-image the instructions q make of the pre-image pre
RECURSIVE Apply(_, _)
Apply(q, pre) ==
  IF q = <<>> THEN <<>>
  ELSE Apply(SubSeq(q, 1, Len(q) - 1), pre) \o Written(q[Len(q)], pre)

\* 'ABCDEFGH' and 'ABCDXYEFGH'
PRE_IMAGE == <<65, 66, 67, 68, 69, 70, 71, 72>>

POST_IMAGE == <<65, 66, 67, 68, 88, 89, 69, 70, 71, 72>>

\* C17: decode_delta applied to the delta [copy 4 bytes from source offset 0;
\* insert 'XY'; copy 4 bytes from source offset 4] ends without error, having
\* produced exactly (0, copy, source 0, size 4), (4, literal 'XY') and
\* (6, copy, source 4, size 4), which make 'ABCDXYEFGH' of 'ABCDEFGH'.
\* (The delta is taken as a bytearray, the one type whose opcodes decode.)
C17_FixtureDecodes ==
  delta = [type |-> "bytearray", bytes |-> DELTA_FIXTURE] /\ dpc \in {"done", "error"}
    => /\ dpc = "done"
       /\ instrs = <<<<0, "source", 0, 4>>, <<4, "delta", <<88, 89>>>>,
                     <<6, "source", 4, 4>>>>
       /\ Apply(instrs, PRE_IMAGE) = POST_IMAGE

\* The exceptions lines 47 and 51 are written to raise
TRUNCATED == "BadBinaryDelta: delta was truncated"

UNKNOWN_OPCODE == "BadBinaryDelta: unknown opcode 0x00"

\* The literal opcode about to be read asks for more bytes than are left
TruncatedLiteral ==
  /\ AtOpcode
  /\ delta.type = "bytearray"
  /\ delta.bytes[ptr + 1] \in 1..127
  /\ ptr + 1 + delta.bytes[ptr + 1] > Len(delta.bytes)

\* C18: an opcode byte 0 ends decoding with the unknown-opcode decode error,
\* a literal opcode with fewer bytes left than it declares ends decoding with
\* the truncated-input decode error, which is another error; in neither case
\* is an instruction produced for the opcode.
C18_DecodeErrors ==
  /\ [][(AtOpcode /\ delta.type = "bytearray" /\ delta.bytes[ptr + 1] = 0)
          => dpc' = "error" /\ derr' = UNKNOWN_OPCODE /\ instrs' = instrs]_vars
  /\ [][TruncatedLiteral
          => dpc' = "error" /\ derr' = TRUNCATED /\ instrs' = instrs]_vars

\* The number of bytes an instruction writes
InstrSize(t) == IF t[2] = "source" THEN t[4] ELSE Len(t[3])

RECURSIVE SumSizes(_)
SumSizes(q) ==
  IF q = <<>> THEN 0
  ELSE SumSizes(SubSeq(q, 1, Len(q) - 1)) + InstrSize(q[Len(q)])

\* C20: the output offset of each instruction is the sum of the sizes of the
\* instructions before it, and when the generator goes on after a literal of
\* n bytes, ptr moves over those n bytes to the next opcode.
C20_OffsetsAccumulate ==
  /\ [](\A i \in 1..Len(instrs) : instrs[i][1] = SumSizes(SubSeq(instrs, 1, i - 1)))
  /\ [][dpc = "yield_delta"
          => ptr' = ptr + Len(instrs[Len(instrs)][3])]_vars

\* C19: when the text that Change.__str__ makes of a parsed Change with
\* TextHunks has been parsed again, one Change has been yielded and each of
\* its hunks has the start_a, len_a, start_b, len_b and the (marker, text)
\* entries of the hunk it was rendered from.
C19_RenderParseRoundTrip ==
  rendered # <<>> /\ pc \in {"done", "error"}
    => /\ pc = "done"
       /\ Len(yielded) = 1
       /\ Len(heap[yielded[1]].hunks) = Len(rendered[1].hunks)
       /\ \A i \in 1..Len(rendered[1].hunks) :
            LET h == heap[yielded[1]].hunks[i]
                g == rendered[1].hunks[i]
            IN  /\ h.type = "text"
                /\ h.start_a = g.start_a /\ h.len_a = g.len_a
                /\ h.start_b = g.start_b /\ h.len_b = g.len_b
                /\ h.lines = g.lines

\* The input has ended inside a unified hunk body: the header's counters are
\* not exhausted and no line is left to read
EndedInBody ==
  /\ pc = "unified_body"
  /\ la > 0 \/ lb > 0
  /\ ~Diverged
  /\ AtEnd

\* C21: when the input ends inside a unified hunk body, the parser stops
\* accumulating: the hunk is attached to the Change with the entries of the
\* lines actually read and no other, and no error is raised (the Change is
\* then yielded at the end of the input).
C21_ShortReadStopsAccumulating ==
  [][EndedInBody
       => /\ hunk'.lines = hunk.lines
          /\ heap'[change].hunks = Append(heap[change].hunks, hunk)
          /\ pc' = "loop"
          /\ err' = ""]_vars

\* The body of a unified hunk is complete: both counters have reached zero
BodyComplete == pc = "unified_body" /\ la = 0 /\ lb = 0

\* The text t without its line terminator (\r\n or \n)
WithoutTerminator(t) ==
  IF EndsWithCRLF(t) THEN Take(t, Len(t) - 2)
  ELSE IF t # <<>> /\ t[Len(t)] = "\n" THEN Take(t, Len(t) - 1)
  ELSE t

\* C22: after a complete unified hunk body, a next line that begins with
\* "\ " is consumed, the last stored entry loses its line terminator, the
\* other entries, len_a, len_b and the number of entries stay as they were;
\* any other next line is not consumed and is the line the driver is handed
\* next.
C22_NoNewlineMarkerAfterBody ==
  [][BodyComplete =>
       LET next == Readline(buffered, pos).line
           n == Len(hunk.lines)
       IN  IF StartsWith(next, <<"\\", " ">>)
           THEN /\ Unread' = Tail(Unread)
                /\ Len(hunk'.lines) = n
                /\ hunk'.len_a = hunk.len_a /\ hunk'.len_b = hunk.len_b
                /\ \A i \in 1..(n - 1) : hunk'.lines[i] = hunk.lines[i]
                /\ n > 0 => hunk'.lines[n] = <<hunk.lines[n][1],
                                               WithoutTerminator(hunk.lines[n][2])>>
           ELSE /\ Unread' = Unread
                /\ hunk' = hunk
                /\ pc' = "loop"
                /\ Readline(buffered', pos').line = next]_vars

\* The marker has been consumed after a body whose last line ended with \r\n:
\* the last entry is ('+', 'y')
C22_Witness ==
  /\ HunkAttached
  /\ pos >= 2
  /\ buffered = <<>>
  /\ input[pos] = L_NO_NEWLINE
  /\ input[pos - 1] = L_NEW_Y_CRLF
  /\ hunk.lines # <<>>
  /\ hunk.lines[Len(hunk.lines)] = <<"+", <<"y">>>>

\* C23: every entry of the lines of every TextHunk of a Change that parse has
\* yielded has a marker in {' ', '-', '+'}.
C23_MarkersOfYieldedHunks ==
  \A k \in 1..Len(yielded) :
    \A i \in 1..Len(heap[yielded[k]].hunks) :
      LET h == heap[yielded[k]].hunks[i]
      IN  h.type = "text" =>
            \A j \in 1..Len(h.lines) : h.lines[j][1] \in {" ", "-", "+"}

\* A line of the old block, a line of the new block of a context hunk
OldLine(l) == \E m \in {"!", "-", " "} : StartsWith(l, <<m, " ">>)

NewLine(l) == \E m \in {"!", "+", " "} : StartsWith(l, <<m, " ">>)

\* The header `*** <start>[,<len>] ****` at input[p], the header
\* `--- <start>[,<len>] ----` that follows the old block, and their numbers
OldHeader(p) == parse_context_header(input[p])

NewHeaderAt(p) == p + OldHeader(p).l + 1

NewHeader(p) == parse_context_header(input[NewHeaderAt(p)])

\* The lines from input[p] on are a well-formed context hunk: the header of
\* the old block, as many old lines as it declares, the header of the new
\* block, as many new lines as it declares
WellFormedContext(p) ==
  /\ p >= 1 /\ p <= Len(input)
  /\ StartsWith(input[p], <<"*", "*", "*", " ">>)
  /\ CONTEXT_HUNK_RE_match(input[p]).ok
  /\ NewHeaderAt(p) <= Len(input)
  /\ \A j \in (p + 1)..(NewHeaderAt(p) - 1) : OldLine(input[j])
  /\ StartsWith(input[NewHeaderAt(p)], <<"-", "-", "-", " ">>)
  /\ CONTEXT_HUNK_RE_match(input[NewHeaderAt(p)]).ok
  /\ NewHeaderAt(p) + NewHeader(p).l <= Len(input)
  /\ \A j \in (NewHeaderAt(p) + 1)..(NewHeaderAt(p) + NewHeader(p).l) :
       NewLine(input[j])

\* _parse_context is about to attach its hunk, and the line after the row of
\* asterisks, read ahead and pushed back, starts a well-formed context hunk
AttachingContext ==
  /\ pc = "context_new"
  /\ lb = 0
  /\ pos >= 2
  /\ input[pos - 1] = line
  /\ buffered = <<input[pos]>>
  /\ WellFormedContext(pos)

\* The driver is about to hand the row of asterisks to _parse_context
AtContextHunk == pc = "loop" /\ ~AtEnd /\ Branch(cur.line) = "context_hunk"

\* C24: the TextHunk attached for a context hunk has the start_a and len_a of
\* the `*** <start>[,<len>] ****` line and the start_b and len_b of the
\* `--- <start>[,<len>] ----` line, and the Change is not upgraded to Add when
\* the old side's numbers are not both 0.
C24_ContextHunkNumbers ==
  /\ [][AttachingContext
          => /\ hunk'.start_a = OldHeader(pos).s
             /\ hunk'.len_a = OldHeader(pos).l
             /\ hunk'.start_b = NewHeader(pos).s
             /\ hunk'.len_b = NewHeader(pos).l
             /\ heap'[change].hunks = Append(heap[change].hunks, hunk')]_vars
  /\ [][(AtContextHunk /\ cur.pos < Len(input)
           /\ CONTEXT_HUNK_RE_match(input[cur.pos + 1]).ok
           /\ parse_context_header(input[cur.pos + 1]) # [s |-> 0, l |-> 0])
          => heap'[change'].kind # "add" \/ heap[change].kind = "add"]_vars

\* The entries of lines whose marker is in M, in order
RECURSIVE Restrict(_, _)
Restrict(lines, M) ==
  IF lines = <<>> THEN <<>>
  ELSE IF lines[1][1] \in M THEN <<lines[1]>> \o Restrict(Tail(lines), M)
  ELSE Restrict(Tail(lines), M)

\* The entry a line of a block stands for: `! ` is removed in the old block
\* and added in the new one
BlockEntry(l, changed) ==
  <<IF l[1] = " " THEN " " ELSE changed, Drop(l, 2)>>

\* C25: the lines of the TextHunk attached for a well-formed context hunk,
\* restricted to context and removed entries, are the old block in order, and
\* restricted to context and added entries are the new block in order.
C25_ContextInterleaving ==
  [][AttachingContext
       => /\ Restrict(hunk'.lines, {" ", "-"}) =
               [j \in 1..OldHeader(pos).l |-> BlockEntry(input[pos + j], "-")]
          /\ Restrict(hunk'.lines, {" ", "+"}) =
               [j \in 1..NewHeader(pos).l |->
                  BlockEntry(input[NewHeaderAt(pos) + j], "+")]]_vars

\* A binary sub-block is about to end well: the next line is blank (or the
\* input has ended) and the data gathered inflate
SubBlockEnds ==
  /\ pc = "binary_data"
  /\ Strip(Readline(buffered, pos).line, WS) = <<>>
  /\ zlib_decompress(hunk.data) # None

\* The hunk the ending sub-block makes
EndedHunk == [hunk EXCEPT !.data = zlib_decompress(hunk.data)]

\* The line after the terminator of the ending sub-block, and whether it is a
\* method line
AfterTerminator ==
  Readline(Readline(buffered, pos).buf, Readline(buffered, pos).pos).line

FollowedByMethodLine ==
  MethodLine(Readline(buffered, pos).buf, Readline(buffered, pos).pos).ok

\* C26: a binary block attaches first a BinaryHunk with reverse = false; a
\* second one, with reverse = true, is read and attached after it exactly
\* when the line after the first sub-block's terminator is a method line;
\* when it is not, no error is raised and that line is the next line the
\* driver is handed.
C26_ForwardThenReverse ==
  /\ [][SubBlockEnds /\ ~hunk.reverse
          => /\ heap'[change].hunks = Append(heap[change].hunks, EndedHunk)
             /\ IF FollowedByMethodLine
                THEN pc' = "binary_data" /\ hunk'.reverse /\ err' = ""
                ELSE /\ pc' = "loop"
                     /\ err' = ""
                     /\ Readline(buffered', pos').line = AfterTerminator]_vars
  /\ [][SubBlockEnds /\ hunk.reverse
          => /\ heap'[change].hunks = Append(heap[change].hunks, EndedHunk)
             /\ heap[change].hunks # <<>>
             /\ heap[change].hunks[Len(heap[change].hunks)].type = "binary"
             /\ ~heap[change].hunks[Len(heap[change].hunks)].reverse
             /\ pc' = "loop"
             /\ err' = ""]_vars

\* A Change holds a forward and a reverse hunk, in this order, and the driver
\* goes on
C26_Witness ==
  /\ pc = "loop"
  /\ change # 0
  /\ Len(heap[change].hunks) = 2
  /\ heap[change].hunks[1].type = "binary" /\ ~heap[change].hunks[1].reverse
  /\ heap[change].hunks[2].type = "binary" /\ heap[change].hunks[2].reverse

\* The Change c holds at least one BinaryHunk
HoldsBinaryHunk(c) == \E i \in 1..Len(c.hunks) : c.hunks[i].type = "binary"

\* C27: every Change that parse has yielded has binary true exactly when its
\* hunk list holds at least one BinaryHunk.
C27_BinaryIffBinaryHunk ==
  \A k \in 1..Len(yielded) :
    heap[yielded[k]].binary <=> HoldsBinaryHunk(heap[yielded[k]])

\* A binary Change holding a BinaryHunk has been yielded, and so has a Change
\* that is not binary
C27_Witness ==
  /\ \E k \in 1..Len(yielded) :
       heap[yielded[k]].binary /\ HoldsBinaryHunk(heap[yielded[k]])
  /\ \E k \in 1..Len(yielded) : ~heap[yielded[k]].binary

\* A yielded Change is not binary although the Change it replaced in an
\* upgrade, within the same diff, was
UpgradedAfterBinary ==
  \E k \in 1..Len(yielded) :
    /\ ~heap[yielded[k]].binary
    /\ \E c \in 1..Len(heap) : born[c] = born[yielded[k]] /\ heap[c].binary

\* The copy opcode about to be read flags more operand bytes than are left
TruncatedCopy ==
  /\ AtOpcode
  /\ delta.type = "bytearray"
  /\ Bit(delta.bytes[ptr + 1], 7)
  /\ ~CopyOperands(delta.bytes, delta.bytes[ptr + 1], ptr + 1).ok

\* C28: decode_delta never reads the delta at an index at or beyond its end
\* (on a bytearray such a read is an IndexError), and a copy opcode whose
\* flagged operand bytes are missing ends decoding with a decode error
\* without producing an instruction.
C28_NoReadPastEnd ==
  /\ [](derr # "IndexError")
  /\ [][TruncatedCopy
          => dpc' = "error" /\ derr' \in {TRUNCATED, UNKNOWN_OPCODE}
               /\ instrs' = instrs]_vars

\* The keys held by the cache
CachedKeys == {cache_keys[i] : i \in 1..Len(cache_keys)}

\* C29: on an LRUCache made with cache_size >= 1, after any calls of
\* __getitem__ and __setitem__, cache and cache_keys have the same length,
\* which is at most cache_size, no key occurs twice in cache_keys, and
\* cache[i] is the value last stored under cache_keys[i].
C29_CacheWellFormed ==
  cache_size >= 1
    => /\ Len(cache) = Len(cache_keys)
       /\ Len(cache) <= cache_size
       /\ \A i, j \in 1..Len(cache_keys) : cache_keys[i] = cache_keys[j] => i = j
       /\ \A i \in 1..Len(cache_keys) : cache[i] = stored[cache_keys[i]]

\* The key k was stored and is no longer held
Evicted(k) == used[k] > 0 /\ k \notin CachedKeys

\* A full cache of more than one entry from which a key was evicted, every
\* key having been stored
C29_Witness ==
  /\ cache_size > 1
  /\ Len(cache) = cache_size
  /\ \E k \in LruKeys : Evicted(k)
  /\ \A k \in LruKeys : stored[k] # None

\* The cached key used least recently
LeastRecentlyUsed ==
  CHOOSE k \in CachedKeys : \A j \in CachedKeys : used[k] <= used[j]

\* The step is a __setitem__ of the key, which the cache does not hold
StoresAbsent(key) ==
  /\ key \notin CachedKeys
  /\ ncalls' = ncalls + 1
  /\ used'[key] = ncalls'

\* The step is a __getitem__ that does not find its key: a call that uses no key
MissesKey ==
  /\ ncalls' = ncalls + 1
  /\ used' = used

\* C30: a __setitem__ of a key that a full cache does not hold evicts the
\* one entry used least recently, a use being a store or a __getitem__ that
\* finds the key; a __getitem__ of a key that is not held returns None and
\* leaves the entries and their order as they are.
C30_EvictsLeastRecentlyUsed ==
  /\ [][\A key \in LruKeys :
          StoresAbsent(key) /\ Len(cache_keys) = cache_size /\ cache_size >= 1
            => /\ CachedKeys' = (CachedKeys \ {LeastRecentlyUsed}) \cup {key}
               /\ \A k \in CachedKeys \ {LeastRecentlyUsed} :
                    cache'[Index(cache_keys', k)] = cache[Index(cache_keys, k)]]_vars
  /\ [][MissesKey
          => returned' = None /\ cache' = cache /\ cache_keys' = cache_keys]_vars

\* A key found by the third call outlived the key stored by the second call,
\* which the fourth call evicted
C30_Witness ==
  /\ cache_size = 2
  /\ ncalls = 4
  /\ returned \in LruValues
  /\ \E a, b, c \in LruKeys :
       /\ used[a] = 3 /\ used[b] = 2 /\ used[c] = 4
       /\ cache_keys = <<a, c>>
       /\ Evicted(b)
====
